---------------------------- MODULE Spec2Model ----------------------------
(***************************************************************************)
(* The autonomous task-execution engine of hgland: the POST handler of the *)
(* AI generation route (src/unnamed/part_006) with its helpers             *)
(* executeToolCall, processToolResults, generateStrategicPlan,             *)
(* evaluateStep and evaluateOverallOutcome.                                *)
(*                                                                         *)
(* The language model, the image API and the database are external: every  *)
(* answer they can give is a nondeterministic choice from a small set.     *)
(* Array indices are 1-based here; stepIndex keeps the code's 0-based      *)
(* value, so the current step is plan.steps[stepIndex + 1].                *)
(***************************************************************************)
EXTENDS Integers, Sequences, FiniteSets, TLC

(* ------------------------------ bounds -------------------------------- *)

\* Longest plan the planning model returns.
MaxSteps == 2

\* Most function calls the Step Executor model requests in one invocation.
MaxToolCalls == 3

\* Longest toolResults list handed to evaluateStep on its own.
MaxResults == 3

\* The longest batch handed to processToolResults on its own.
MaxBatch == 3

\* The longest conversation history of a request.
MaxHistory == 25

\* The steps of the long plan.
MaxLongSteps == 4

\* The largest threshold given to compactContext directly.
MaxThreshold == 5

(* ------------------------- program constants -------------------------- *)

maxRetries == 2

maxIterationsPerStep == 5

(* ------------------------------- values ------------------------------- *)

\* JavaScript null, as the `result` of a failed tool call.
Null == [isNull |-> TRUE]

\* The JSON object {} : no field at all.
EmptyObject == [k \in {} |-> TRUE]

\* The request's prompt (non-empty: line 737 has let it through).
Prompt == "build a site"

\* The request body's `files`: a project holding /a.
InitialManifests ==
    { << [id |-> 1, name |-> "a", type |-> "file", path |-> "/a", content |-> "x"] >> }

\* The ids Date.now()+Math.random() produce are fresh; they are drawn from a counter
\* that starts above every id of the request's manifest.
FirstFreshId == 2

SeqsUpTo(S, n) == UNION { [1..m -> S] : m \in 0..n }

RECURSIVE SumSeq(_)
SumSeq(s) == IF s = << >> THEN 0 ELSE Head(s) + SumSeq(Tail(s))

\* findIndex(x => x.id === id), 1-based, 0 when there is none.
FindIndex(s, id) ==
    IF \E k \in 1..Len(s) : s[k].id = id
    THEN CHOOSE k \in 1..Len(s) : s[k].id = id /\ \A j \in 1..(k - 1) : s[j].id # id
    ELSE 0

\* Array.prototype.splice(idx, 1).
RemoveAt(s, idx) == [k \in 1..(Len(s) - 1) |-> IF k < idx THEN s[k] ELSE s[k + 1]]

\* Array.prototype.flatMap(h => h.results).
RECURSIVE FlatResults(_)
FlatResults(h) == IF h = << >> THEN << >> ELSE Head(h).results \o FlatResults(Tail(h))

\* Math.floor in the place of Math.round.
RoundPercentTruncated(a, b) == (100 * a) \div b

\* Math.round(100 * a / b): round half up.
RoundPercent(a, b) == (200 * a + b) \div (2 * b)

(* --------------------------- Tool Dispatcher -------------------------- *)

\* The mockOutputs table of run_terminal and its two defaults; the commands
\* that start with "npm install" are listed, strings having no prefix test here.
mockOutput(command) ==
    CASE command = "npm run build" -> "Compiled successfully, Build completed"
      [] command = "npm run dev" -> "Ready on http://localhost:3000"
      [] command = "npm test" -> "All tests passed"
      [] command \in {"npm install", "npm install react"} -> "added 1 package in 2.1s"
      [] OTHER -> "Executed: " \o command

\* What the image API can do for one generate_image call.
ImageOutcomes == {"data", "empty", "throws"}

executeToolCall(toolName, args, curFiles, newId, image) ==
    CASE toolName = "generate_image" ->
           IF image = "throws"
           THEN [success |-> FALSE, result |-> Null, error |-> "image API unreachable"]
           ELSE IF image = "empty"
           THEN [success |-> FALSE, result |-> Null, error |-> "No image data returned"]
           ELSE [success |-> TRUE,
                 result |-> [action |-> "generate_image", filename |-> args.filename,
                             base64Data |-> "b64"]]
      [] toolName = "create_file" ->
           [success |-> TRUE,
            result |-> [action |-> "create_file",
                        file |-> [id |-> newId, name |-> args.filename, type |-> "file",
                                  path |-> IF args.path = "/" THEN "/" \o args.filename
                                           ELSE args.path \o "/" \o args.filename,
                                  content |-> args.content]]]
      [] toolName = "edit_file" ->
           IF \E k \in 1..Len(curFiles) : curFiles[k].id = args.fileId
           THEN [success |-> TRUE,
                 result |-> [action |-> "edit_file", fileId |-> args.fileId,
                             newContent |-> args.newContent,
                             newFilename |-> args.newFilename]]
           ELSE [success |-> FALSE, result |-> Null,
                 error |-> "File with ID " \o ToString(args.fileId) \o " not found"]
      [] toolName = "delete_file" ->
           [success |-> TRUE, result |-> [action |-> "delete_file", fileId |-> args.fileId]]
      [] toolName = "run_terminal" ->
           [success |-> TRUE,
            result |-> [action |-> "run_terminal", command |-> args.command,
                        output |-> mockOutput(args.command)]]
      [] toolName = "install_package" ->
           [success |-> TRUE,
            result |-> [action |-> "install_package",
                        package |-> [name |-> args.packageName, version |-> args.version,
                                     installed |-> TRUE]]]
      [] toolName = "read_file" ->
           LET k == FindIndex(curFiles, args.fileId) IN
           IF k # 0
           THEN [success |-> TRUE,
                 result |-> [action |-> "read_file", fileId |-> args.fileId,
                             filename |-> curFiles[k].name, content |-> curFiles[k].content]]
           ELSE [success |-> FALSE, result |-> Null, error |-> "File not found"]
      [] toolName = "list_files" ->
           [success |-> TRUE,
            result |-> [action |-> "list_files",
                        files |-> [k \in 1..Len(curFiles) |->
                                     [id |-> curFiles[k].id, name |-> curFiles[k].name,
                                      path |-> curFiles[k].path, type |-> curFiles[k].type]]]]
      [] toolName = "complete_step" ->
           [success |-> TRUE,
            result |-> [action |-> "complete_step", stepId |-> args.stepId,
                        outcome |-> args.outcome]]
      [] OTHER ->
           [success |-> FALSE, result |-> Null, error |-> "Unknown tool: " \o toolName]

(* -------------------------- Workspace Reducer ------------------------- *)

\* One turn of the for loop of processToolResults over the accumulator
\* [files, packages, terminalOutput, generatedImages, createdFilePaths, nextId].
\* Were a created file's path compared with the batch's earlier creations only.
pathTakenInBatchOnly(acc, filePath) == filePath \in acc.createdFilePaths

\* Line 378: a file of the manifest has the path, or the batch created it before.
pathTaken(acc, filePath) ==
    \/ \E k \in 1..Len(acc.files) : acc.files[k].path = filePath
    \/ filePath \in acc.createdFilePaths

reduceOne(acc, call) ==
    LET result == call.result IN
    IF result = Null \/ ~call.success THEN acc
    ELSE CASE result.action = "create_file" ->
                IF pathTaken(acc, result.file.path)
                THEN acc
                ELSE [acc EXCEPT !.createdFilePaths = @ \cup {result.file.path},
                                 !.files = Append(@, result.file)]
           [] result.action = "edit_file" ->
                LET idx == FindIndex(acc.files, result.fileId) IN
                IF idx # 0
                THEN [acc EXCEPT !.files[idx].content = result.newContent,
                                 !.files[idx].name =
                                     IF result.newFilename # "" THEN result.newFilename ELSE @]
                ELSE acc
           [] result.action = "delete_file" ->
                LET delIdx == FindIndex(acc.files, result.fileId) IN
                IF delIdx # 0 THEN [acc EXCEPT !.files = RemoveAt(@, delIdx)] ELSE acc
           [] result.action = "install_package" ->
                [acc EXCEPT !.packages = Append(@, result.package)]
           [] result.action = "run_terminal" ->
                [acc EXCEPT !.terminalOutput = Append(@, result.output)]
           [] result.action = "generate_image" ->
                LET imagePath == "/images/" \o result.filename IN
                IF \E k \in 1..Len(acc.files) : acc.files[k].path = imagePath
                THEN acc
                ELSE [acc EXCEPT
                        !.generatedImages =
                            Append(@, [filename |-> result.filename,
                                       base64Data |-> result.base64Data]),
                        !.files =
                            Append(@, [id |-> acc.nextId, name |-> result.filename,
                                       type |-> "file", path |-> imagePath,
                                       content |-> "data:image/png;base64," \o result.base64Data]),
                        !.nextId = @ + 1]
           [] OTHER -> acc

RECURSIVE reduceAll(_, _)
reduceAll(acc, toolCalls) ==
    IF toolCalls = << >> THEN acc
    ELSE reduceAll(reduceOne(acc, Head(toolCalls)), Tail(toolCalls))

\* processToolResults(toolCalls, currentFiles); freshId is the next id the
\* id generator hands out, nextId of the result the one after the call.
processToolResults(toolCalls, curFiles, freshId) ==
    reduceAll([files |-> curFiles, packages |-> << >>, terminalOutput |-> << >>,
               generatedImages |-> << >>, createdFilePaths |-> {}, nextId |-> freshId],
              toolCalls)

(* ------------------ the same functions on shared objects ---------------- *)

\* JavaScript passes lists and their entries by reference. A heap has the
\* objects (file entries, plan steps) and the arrays (lists of references to
\* objects) that exist; a reference is the position in `objects` or `arrays`.
\* The manifest a function is given is array 1, its k-th entry object k.
HeapOf(entries) ==
    [objects |-> entries, arrays |-> << SubSeq([k \in 1..Len(entries) |-> k], 1, Len(entries)) >>]

\* The sequence with x at position idx.
ReplaceAt(s, idx, x) == SubSeq(s, 1, idx - 1) \o << x >> \o SubSeq(s, idx + 1, Len(s))

\* The entries a list holds.
Deref(h, list) == [k \in 1..Len(h.arrays[list]) |-> h.objects[h.arrays[list][k]]]

allocArray(h, refs) == [h EXCEPT !.arrays = Append(@, refs)]

\* Were updatedFiles the list the caller gave.
copyListAliased(h, list) == [heap |-> h, list |-> list]

\* Line 364, [...currentFiles]: a new array with the same entries.
copyList(h, list) == [heap |-> allocArray(h, h.arrays[list]), list |-> Len(h.arrays) + 1]

\* updatedFiles.push(object) for an object the list did not hold (lines 380, 417).
pushNew(acc, object) ==
    [acc EXCEPT !.heap =
        [objects |-> Append(acc.heap.objects, object),
         arrays |-> ReplaceAt(acc.heap.arrays, acc.list,
                              Append(acc.heap.arrays[acc.list], Len(acc.heap.objects) + 1))]]

\* Lines 370-426 on the heap: create and image push a new object on
\* updatedFiles, edit puts a new object (the spread of 387-391) in the slot,
\* delete splices the slot out.
heapReduceOne(acc, call) ==
    LET result == call.result
        cur == Deref(acc.heap, acc.list)
    IN
    IF result = Null \/ ~call.success THEN acc
    ELSE CASE result.action = "create_file" ->
                IF pathTaken([files |-> cur, createdFilePaths |-> acc.createdFilePaths],
                             result.file.path)
                THEN acc
                ELSE [pushNew(acc, result.file) EXCEPT
                        !.createdFilePaths = @ \cup {result.file.path}]
           [] result.action = "edit_file" ->
                LET idx == FindIndex(cur, result.fileId) IN
                IF idx # 0
                THEN [acc EXCEPT
                        !.heap =
                            [objects |->
                                Append(acc.heap.objects,
                                       [cur[idx] EXCEPT
                                          !.content = result.newContent,
                                          !.name = IF result.newFilename # ""
                                                   THEN result.newFilename ELSE @]),
                             arrays |->
                                ReplaceAt(acc.heap.arrays, acc.list,
                                          ReplaceAt(acc.heap.arrays[acc.list], idx,
                                                    Len(acc.heap.objects) + 1))]]
                ELSE acc
           [] result.action = "delete_file" ->
                LET delIdx == FindIndex(cur, result.fileId) IN
                IF delIdx # 0
                THEN [acc EXCEPT
                        !.heap.arrays =
                            ReplaceAt(@, acc.list,
                                      SubSeq(acc.heap.arrays[acc.list], 1, delIdx - 1)
                                        \o SubSeq(acc.heap.arrays[acc.list], delIdx + 1,
                                                  Len(acc.heap.arrays[acc.list])))]
                ELSE acc
           [] result.action = "generate_image" ->
                LET imagePath == "/images/" \o result.filename IN
                IF \E k \in 1..Len(cur) : cur[k].path = imagePath
                THEN acc
                ELSE [pushNew(acc, [id |-> acc.nextId, name |-> result.filename,
                                    type |-> "file", path |-> imagePath,
                                    content |-> "data:image/png;base64,"
                                                   \o result.base64Data])
                        EXCEPT !.nextId = @ + 1]
           [] OTHER -> acc

RECURSIVE heapReduceAll(_, _)
heapReduceAll(acc, toolCalls) ==
    IF toolCalls = << >> THEN acc
    ELSE heapReduceAll(heapReduceOne(acc, Head(toolCalls)), Tail(toolCalls))

\* processToolResults(toolCalls, currentFiles) with currentFiles the array
\* `list` of heap h: the heap after the call and the list it returns as files.
processToolResultsOnHeap(toolCalls, h, list, freshId) ==
    LET copy == copyList(h, list) IN
    heapReduceAll([heap |-> copy.heap, list |-> copy.list, createdFilePaths |-> {},
                   nextId |-> freshId], toolCalls)

\* generateStrategicPlan with currentFiles the array `list`: line 443 maps the
\* list to a new array of lines for the prompt; nothing else touches it.
generateStrategicPlanOnHeap(h, list) == allocArray(h, h.arrays[list])

\* evaluateOverallOutcome with plan.steps the array `steps` and currentFiles
\* the array `list`: lines 554, 563, 566 and 590 filter and map them to new arrays.
evaluateOverallOutcomeOnHeap(h, steps, list) ==
    LET completed == SelectSeq(h.arrays[steps],
                               LAMBDA r : h.objects[r].status = "completed")
        failed == SelectSeq(h.arrays[steps], LAMBDA r : h.objects[r].status = "failed")
    IN allocArray(allocArray(allocArray(allocArray(h, completed), h.arrays[steps]),
                             h.arrays[list]), failed)

(* -------------------------- Strategic Planner ------------------------- *)

\* The fallback step described by a fixed text.
createDefaultPlanFixedText(goal) ==
    [goal |-> goal, complexity |-> "simple",
     steps |-> << [id |-> "step_1", description |-> "Execute the requested task",
                   dependencies |-> {}, status |-> "pending", retryCount |-> 0,
                   toolResults |-> << >>, evaluation |-> << >>] >>,
     proactiveEnhancements |-> << >>]

createDefaultPlan(goal) ==
    [goal |-> goal, complexity |-> "simple",
     steps |-> << [id |-> "step_1", description |-> goal, dependencies |-> {},
                   status |-> "pending", retryCount |-> 0, toolResults |-> << >>,
                   evaluation |-> << >>] >>,
     proactiveEnhancements |-> << >>]

\* The dependency lists the planning model may give a step: none, the first step
\* or the second step; for the step itself that is a dependency on itself, for the
\* first step "step_2" is a later step, and in a one-step plan it is an id no step has.
DepSets == { {}, {"step_1"}, {"step_2"} }

StepChoices(k) ==
    { [id |-> i, description |-> "d" \o ToString(k), dependencies |-> d] :
        i \in {"step_" \o ToString(k)}, d \in DepSets }

\* What the model put in the fields the planner overwrites.
ModelStepFields ==
    { [status |-> "pending", retryCount |-> 0, toolResults |-> << >>],
      [status |-> "completed", retryCount |-> 3,
       toolResults |-> << [tool |-> "create_file", success |-> TRUE, result |-> Null,
                           stepId |-> "step_1"] >>] }

ModelPlans ==
    { [goal |-> Prompt, complexity |-> "moderate", proactiveEnhancements |-> << "seo" >>,
       steps |-> [k \in 1..Len(c) |->
                    [id |-> c[k].id, description |-> c[k].description,
                     dependencies |-> c[k].dependencies, status |-> m.status,
                     retryCount |-> m.retryCount, toolResults |-> m.toolResults,
                     evaluation |-> << >>]]] :
        m \in ModelStepFields,
        c \in UNION { { f \in [1..l -> UNION { StepChoices(k) : k \in 1..l }] :
                          \A k \in 1..l : f[k] \in StepChoices(k) } : l \in 1..MaxSteps } }

\* The planning call: it throws, or its text is not JSON, or it is a JSON
\* object (with no content the code parses '{}').
PlannerResponses ==
    { [kind |-> "throws"], [kind |-> "text"] }
    \cup { [kind |-> "json", value |-> v] :
             v \in {EmptyObject, [goal |-> Prompt, steps |-> << >>]}
                   \cup { q \in ModelPlans : TRUE } }

\* The planner without lines 492-497: the steps are returned as the model gave them.
generateStrategicPlanAsGiven(goal, resp) ==
    IF resp.kind # "json" THEN createDefaultPlan(goal)
    ELSE IF "steps" \notin DOMAIN resp.value \/ Len(resp.value.steps) = 0
    THEN createDefaultPlan(goal)
    ELSE resp.value

generateStrategicPlan(goal, resp) ==
    IF resp.kind # "json" THEN createDefaultPlan(goal)
    ELSE LET plan == resp.value IN
         IF "steps" \notin DOMAIN plan \/ Len(plan.steps) = 0
         THEN createDefaultPlan(goal)
         ELSE [plan EXCEPT !.steps =
                 [k \in 1..Len(plan.steps) |->
                    [plan.steps[k] EXCEPT !.status = "pending", !.retryCount = 0,
                                          !.toolResults = << >>]]]

(* ---------------------------- Step Evaluator -------------------------- *)

\* errorResult?.error || 'Unknown error'
ErrorText(r) == IF "error" \in DOMAIN r /\ r.error # "" THEN r.error ELSE "Unknown error"

RECURSIVE issuesOf(_)
issuesOf(results) ==
    IF results = << >> THEN << >>
    ELSE (IF ~Head(results).success
          THEN << Head(results).tool \o " failed: " \o ErrorText(Head(results).result) >>
          ELSE << >>) \o issuesOf(Tail(results))

evaluateStep(step) ==
    IF Len(step.toolResults) = 0
    THEN [success |-> FALSE, score |-> 0, issues |-> << "No tool executions for this step" >>]
    ELSE LET successCount == Len(SelectSeq(step.toolResults, LAMBDA r : r.success))
             failCount == Len(SelectSeq(step.toolResults, LAMBDA r : ~r.success))
         IN [success |-> failCount = 0 /\ successCount > 0,
             score |-> RoundPercent(successCount, Len(step.toolResults)),
             issues |-> issuesOf(step.toolResults)]

(* --------------------------- Outcome Verifier ------------------------- *)

\* The verifier's model call: it throws, or its text is a JSON object: {} (also
\* what the code parses when the content is empty) or a verdict with the four fields.
VerifierResponses ==
    { [kind |-> "throws"] }
    \cup { [kind |-> "json", value |-> v] :
             v \in { EmptyObject,
                     [goalAchieved |-> TRUE, completeness |-> 100, gaps |-> << >>,
                      suggestions |-> << >>],
                     [goalAchieved |-> FALSE, completeness |-> 40, gaps |-> << "no tests" >>,
                      suggestions |-> << "add tests" >>] } }

evaluateOverallOutcome(plan, curFiles, originalGoal, resp) ==
    LET completedSteps == Len(SelectSeq(plan.steps, LAMBDA s : s.status = "completed"))
        totalSteps == Len(plan.steps)
        basicCompleteness == RoundPercent(completedSteps, totalSteps)
        failed == SelectSeq(plan.steps, LAMBDA s : s.status = "failed")
    IN IF resp.kind = "json" THEN resp.value
       ELSE [goalAchieved |-> completedSteps = totalSteps,
             completeness |-> basicCompleteness,
             gaps |-> [k \in 1..Len(failed) |-> failed[k].description],
             suggestions |-> << >>]

(* --------------------------- context compaction ----------------------- *)

\* The default of compactContext's maxMessages.
defaultMaxMessages == 20

\* Array.prototype.join.
RECURSIVE Join(_, _)
Join(strings, sep) ==
    IF strings = << >> THEN ""
    ELSE IF Len(strings) = 1 THEN strings[1]
    ELSE strings[1] \o sep \o Join(Tail(strings), sep)

\* Array.prototype.slice(-n): the last n elements, the whole array for n = 0
\* (slice(-0) is slice(0)) and for n above the length.
SliceLast(s, n) ==
    IF n = 0 \/ n >= Len(s) THEN s ELSE SubSeq(s, Len(s) - n + 1, Len(s))

\* 80% of the threshold is kept.
recentCountFourFifths(maxMessages) == (maxMessages * 8) \div 10

\* Math.floor(maxMessages * 0.7)
recentCount(maxMessages) == (maxMessages * 7) \div 10

\* The for loop over olderMessages: a user message opens a topic, the next
\* assistant message closes it with a summary point.
RECURSIVE summaryPoints(_, _)
summaryPoints(olderMessages, currentTopic) ==
    IF olderMessages = << >> THEN << >>
    ELSE LET msg == Head(olderMessages) IN
         IF msg.role = "user"
         THEN summaryPoints(Tail(olderMessages), msg.content)
         ELSE IF msg.role = "assistant" /\ currentTopic # ""
         THEN << "- \"" \o currentTopic \o "...\" -> " \o msg.content \o "..." >>
              \o summaryPoints(Tail(olderMessages), "")
         ELSE summaryPoints(Tail(olderMessages), currentTopic)

compactContext(messages, maxMessages) ==
    IF Len(messages) <= maxMessages THEN messages
    ELSE LET recentMessages == SliceLast(messages, recentCount(maxMessages))
             olderMessages == SubSeq(messages, 1, Len(messages) - Len(recentMessages))
             points == summaryPoints(olderMessages, "")
             summary == [role |-> "system",
                         content |-> "[CONTEXT SUMMARY]\n" \o Join(SliceLast(points, 10), "\n")
                                       \o "\n[END SUMMARY]"]
         IN << summary >> \o recentMessages

(* ------------------------------- state -------------------------------- *)

VARIABLES
    pc,                  \* where the POST handler stands
    files,               \* the request body's manifest
    plan,                \* the ExecutionPlan, mutated in place by the engine
    executionState,      \* the ExecutionState
    stepIndex,           \* the for loop's index, 0-based
    currentFiles,        \* the in-progress workspace
    allToolResults,      \* every scored attempt's results, in order
    totalIterations,     \* Step Executor round-trips of the invocation
    stepCompleted,       \* the step loop's local, one per step
    stepIterations,      \* the step loop's local, one per step
    stepAttemptHistory,  \* the step loop's local, one per step
    response,            \* response.output of the round-trip being processed
    itemIdx,             \* the next item of response.output, 1-based
    stepSignaledComplete,
    dispatched,          \* what executeToolCall returned for each call of this attempt
    idSeq,               \* the next fresh file id
    overallEvaluation,   \* the Outcome Verifier's verdict
    verifierCalls,       \* the arguments and model answer of each verifier run
    processedResults,    \* the aggregate fold of line 939
    projectId,           \* the request body's projectId, Null when there is none
    executionRecord,     \* the agentExecutions row of this invocation, Null when there is none
    memories,            \* what retrieveRelevantMemories returned
    learnings,           \* what retrieveRelevantLearnings returned
    storeLog,            \* every database operation of the invocation and whether it succeeded
    evalArg,             \* a toolResults list given to evaluateStep directly
    evalOut,             \* its result
    conversationHistory, \* the request body's conversationHistory
    thresholdArg,        \* a maxMessages given to compactContext directly
    compactedHistory,    \* << compactContext of it >>, empty before line 759
    reduceArg,           \* a manifest and a batch given to processToolResults directly
    reduceOut,           \* the manifest after one fold and after the fold of the batch over that
    planArg,             \* a goal and a planning answer given to generateStrategicPlan directly
    planOut,             \* its result
    running,             \* which of two overlapping invocations holds the engine's locals
    suspended,           \* the locals of the other one, waiting at an await
    projectRow,          \* the project's row in the database: files and packages
    invocations          \* per invocation, where it is in the project update and what it holds

vars == << pc, files, plan, executionState, stepIndex, currentFiles, allToolResults,
           totalIterations, stepCompleted, stepIterations, stepAttemptHistory, response,
           itemIdx, stepSignaledComplete, dispatched, idSeq, overallEvaluation,
           verifierCalls, processedResults, projectId, executionRecord, memories,
           learnings, storeLog, evalArg, evalOut, conversationHistory, thresholdArg,
           compactedHistory, reduceArg, reduceOut, planArg, planOut,
           running, suspended, projectRow, invocations >>

\* The request's project and its execution record.
recordVars == << projectId, executionRecord, memories, learnings, storeLog >>

\* The arguments and results of the functions applied on their own.
evalVars == << evalArg, evalOut >>

historyVars == << conversationHistory, thresholdArg, compactedHistory >>

reduceVars == << reduceArg, reduceOut >>

plannerVars == << planArg, planOut >>

\* A second invocation and the database row the two share.
concurrencyVars == << running, suspended, projectRow, invocations >>

engineVars == << pc, files, plan, executionState, stepIndex, currentFiles, allToolResults,
                 totalIterations, stepCompleted, stepIterations, stepAttemptHistory,
                 response, itemIdx, stepSignaledComplete, dispatched, idSeq,
                 overallEvaluation, verifierCalls, processedResults, projectId,
                 executionRecord, memories, learnings, storeLog >>

NoPlan == [goal |-> "", complexity |-> "simple", steps |-> << >>,
           proactiveEnhancements |-> << >>]

NoResults == [files |-> << >>, packages |-> << >>, terminalOutput |-> << >>,
              generatedImages |-> << >>, createdFilePaths |-> {}, nextId |-> 0]

EngineInit ==
    /\ pc = "plan"
    /\ files \in InitialManifests
    /\ plan = NoPlan
    /\ executionState = [planGenerated |-> FALSE, currentStepIndex |-> 0,
                         completedSteps |-> << >>, failedSteps |-> << >>,
                         skippedSteps |-> << >>, evaluationsPassed |-> 0,
                         evaluationsFailed |-> 0, overallSuccess |-> FALSE]
    /\ stepIndex = 0
    /\ currentFiles = files
    /\ allToolResults = << >>
    /\ totalIterations = 0
    /\ stepCompleted = << >>
    /\ stepIterations = << >>
    /\ stepAttemptHistory = << >>
    /\ response = << >>
    /\ itemIdx = 1
    /\ stepSignaledComplete = FALSE
    /\ dispatched = << >>
    /\ idSeq = FirstFreshId
    /\ overallEvaluation = EmptyObject
    /\ verifierCalls = << >>
    /\ processedResults = NoResults
    /\ executionRecord = Null
    /\ memories = << >>
    /\ learnings = << >>
    /\ storeLog = << >>
    /\ compactedHistory = << >>

\* The functions applied on their own have not been given anything.
NothingApplied ==
    /\ evalArg = << >> /\ evalOut = << >>
    /\ reduceArg = Null /\ reduceOut = Null
    /\ planArg = Null /\ planOut = Null

\* One invocation on its own: no other is suspended, no row is followed.
OneInvocation ==
    /\ running = 1
    /\ suspended = Null
    /\ projectRow = Null
    /\ invocations = << >>

\* A request without projectId and without conversationHistory.
Init ==
    /\ EngineInit
    /\ OneInvocation
    /\ projectId = Null
    /\ conversationHistory = << >>
    /\ thresholdArg = defaultMaxMessages
    /\ NothingApplied

(* ------------------------------ the engine ---------------------------- *)

\* Were the insert to leave a row even when it throws.
createExecutionRecordAlways(inserted) ==
    [finalOutcome |-> "in_progress", completedAt |-> << >>]

\* createExecutionRecord: the row is inserted with finalOutcome in_progress and
\* no completedAt (an empty tuple here), or the insert throws and there is no row (the id is null).
createExecutionRecord(inserted) ==
    IF inserted THEN [finalOutcome |-> "in_progress", completedAt |-> << >>] ELSE Null

\* The rows of the project in agentMemory and agentLearnings, as the
\* retrieval functions format them.
StoredMemories == << "[execution_summary] Goal: build a site" >>

StoredLearnings == << "[success_pattern] simple complexity, 1 steps: Successful execution pattern" >>

\* retrieveRelevantMemories: the formatted rows, or the empty list when the
\* query throws.
retrieveRelevantMemories(queried) == IF queried THEN StoredMemories ELSE << >>

\* retrieveRelevantLearnings: likewise.
retrieveRelevantLearnings(queried) == IF queried THEN StoredLearnings ELSE << >>

\* One database operation and whether it succeeded.
StoreOp(op, ok) == [op |-> op, ok |-> ok]

\* Were the execution summary written when the run begins.
planningLogWithSummary(queriedMemories, queriedLearnings, inserted) ==
    << StoreOp("retrieveRelevantMemories", queriedMemories),
       StoreOp("retrieveRelevantLearnings", queriedLearnings),
       StoreOp("createExecutionRecord", inserted),
       StoreOp("storeMemory execution_summary", TRUE) >>

\* Lines 741-746: the database operations before the first step, in order;
\* the plan is generated between the retrievals and the insert of the record,
\* which takes the plan.
planningLog(queriedMemories, queriedLearnings, inserted) ==
    << StoreOp("retrieveRelevantMemories", queriedMemories),
       StoreOp("retrieveRelevantLearnings", queriedLearnings),
       StoreOp("createExecutionRecord", inserted) >>

\* Lines 741-777, the planning model answering from `answers`: memories and
\* learnings are retrieved when the request names a project, the plan is
\* generated, the execution record created when the request names a project,
\* the history compacted; the per-step locals do not exist yet.
GeneratePlanFrom(answers) ==
    /\ pc = "plan"
    /\ \E resp \in answers :
         /\ plan' = generateStrategicPlan(Prompt, resp)
         /\ stepCompleted' = [k \in 1..Len(plan'.steps) |-> FALSE]
         /\ stepIterations' = [k \in 1..Len(plan'.steps) |-> 0]
         /\ stepAttemptHistory' = [k \in 1..Len(plan'.steps) |-> << >>]
    /\ IF projectId = Null
       THEN /\ memories' = << >>
            /\ learnings' = << >>
            /\ executionRecord' = Null
            /\ storeLog' = storeLog
       ELSE \E queriedMemories \in BOOLEAN, queriedLearnings \in BOOLEAN, inserted \in BOOLEAN :
              /\ memories' = retrieveRelevantMemories(queriedMemories)
              /\ learnings' = retrieveRelevantLearnings(queriedLearnings)
              /\ executionRecord' = createExecutionRecord(inserted)
              /\ storeLog' = storeLog \o planningLog(queriedMemories, queriedLearnings, inserted)
    /\ compactedHistory' = << compactContext(conversationHistory, defaultMaxMessages) >>
    /\ executionState' = [executionState EXCEPT !.planGenerated = TRUE]
    /\ pc' = "step"
    /\ UNCHANGED << files, stepIndex, currentFiles, allToolResults, totalIterations,
                    response, itemIdx, stepSignaledComplete, dispatched, idSeq,
                    overallEvaluation, verifierCalls, processedResults, projectId,
                    conversationHistory, thresholdArg, evalVars, reduceVars, plannerVars,
                    concurrencyVars >>

GeneratePlan == GeneratePlanFrom(PlannerResponses)

\* A dependency counts as met unless its step failed.
dependenciesMetUnlessFailed(p, currentStep) ==
    \A depId \in currentStep.dependencies :
        LET k == FindIndex(p.steps, depId) IN
        k = 0 \/ p.steps[k].status # "failed"

\* Were a dependency id that no step has to count as met.
dependenciesMetIgnoringUnknown(p, currentStep) ==
    \A depId \in currentStep.dependencies :
        LET k == FindIndex(p.steps, depId) IN
        k = 0 \/ p.steps[k].status = "completed"

\* Lines 796-798.
dependenciesMet(p, currentStep) ==
    \A depId \in currentStep.dependencies :
        LET k == FindIndex(p.steps, depId) IN
        k # 0 /\ p.steps[k].status = "completed"

\* Lines 791-808: the step's turn arrives.
StartStep ==
    /\ pc = "step"
    /\ stepIndex < Len(plan.steps)
    /\ LET i == stepIndex + 1
           inProgress == [plan EXCEPT !.steps[i].status = "in_progress"]
       IN IF ~dependenciesMet(inProgress, inProgress.steps[i])
          THEN /\ plan' = [plan EXCEPT !.steps[i].status = "skipped"]
               /\ executionState' =
                    [executionState EXCEPT !.currentStepIndex = stepIndex,
                                           !.skippedSteps = Append(@, plan.steps[i].id)]
               /\ stepIndex' = stepIndex + 1
               /\ pc' = "step"
          ELSE /\ plan' = inProgress
               /\ executionState' = [executionState EXCEPT !.currentStepIndex = stepIndex]
               /\ stepIndex' = stepIndex
               /\ pc' = "attempt"
    /\ UNCHANGED << files, currentFiles, allToolResults, totalIterations, stepCompleted,
                    stepIterations, stepAttemptHistory, response, itemIdx,
                    stepSignaledComplete, dispatched, idSeq, overallEvaluation,
                    verifierCalls, processedResults, recordVars, evalVars,
                    historyVars, reduceVars, plannerVars, concurrencyVars >>

\* The iteration bound tested with <= .
whileConditionInclusive(i) ==
    /\ ~stepCompleted[i]
    /\ stepIterations[i] <= maxIterationsPerStep
    /\ plan.steps[i].retryCount <= maxRetries

\* Line 810.
whileCondition(i) ==
    /\ ~stepCompleted[i]
    /\ stepIterations[i] < maxIterationsPerStep
    /\ plan.steps[i].retryCount <= maxRetries

\* The items of response.output. A function call's item.arguments is JSON text,
\* which parses to `args` or does not parse: a file is created at /b, a file
\* that does not exist is edited, the step is signalled complete.
Call(name, args) == [type |-> "function_call", name |-> name, parses |-> TRUE, args |-> args]

CreateB == Call("create_file", [filename |-> "b", content |-> "y", path |-> "/"])

EditMissing == Call("edit_file", [fileId |-> 99, newContent |-> "z", newFilename |-> ""])

CompleteStep == Call("complete_step", [stepId |-> "step_1", outcome |-> "ok"])

Unparsable == [type |-> "function_call", name |-> "create_file", parses |-> FALSE,
               args |-> EmptyObject]

Message == [type |-> "message"]

IsCall(item) == item.type = "function_call"

CallCount(r) == Cardinality({ k \in 1..Len(r) : IsCall(r[k]) })

\* response.output of one round-trip: text only, or function calls.
StepResponses ==
    { << Message >>, << CreateB >>, << CreateB, CompleteStep >>, << EditMissing >>,
      << CreateB, EditMissing >>, << CompleteStep >>, << Unparsable >> }

\* The attempt starts without line 814: toolResults is not emptied.
beginAttemptKeepingResults(i) ==
    /\ stepIterations' = [stepIterations EXCEPT ![i] = @ + 1]
    /\ totalIterations' = totalIterations + 1
    /\ plan' = plan

\* Lines 811-814: the loop body up to the model call.
beginAttempt(i) ==
    /\ stepIterations' = [stepIterations EXCEPT ![i] = @ + 1]
    /\ totalIterations' = totalIterations + 1
    /\ plan' = [plan EXCEPT !.steps[i].toolResults = << >>]

\* Lines 810-864: one Step Executor round-trip that returns, the model
\* answering from `responses`.
RoundTripFrom(responses) ==
    /\ pc = "attempt"
    /\ whileCondition(stepIndex + 1)
    /\ beginAttempt(stepIndex + 1)
    /\ response' \in { r \in responses : CallCount(r) <= MaxToolCalls - Len(allToolResults) }
    /\ itemIdx' = 1
    /\ stepSignaledComplete' = FALSE
    /\ dispatched' = << >>
    /\ pc' = "tools"
    /\ UNCHANGED << files, executionState, stepIndex, currentFiles, allToolResults,
                    stepCompleted, stepAttemptHistory, idSeq, overallEvaluation,
                    verifierCalls, processedResults, recordVars, evalVars,
                    historyVars, reduceVars, plannerVars, concurrencyVars >>

StepExecutorRoundTrip == RoundTripFrom(StepResponses)

\* Lines 810-862 and 1105-1108: the model call throws, the handler answers 500.
StepExecutorThrows ==
    /\ pc = "attempt"
    /\ whileCondition(stepIndex + 1)
    /\ beginAttempt(stepIndex + 1)
    /\ pc' = "error"
    /\ UNCHANGED << files, executionState, stepIndex, currentFiles, allToolResults,
                    stepCompleted, stepAttemptHistory, response, itemIdx,
                    stepSignaledComplete, dispatched, idSeq, overallEvaluation,
                    verifierCalls, processedResults, recordVars, evalVars,
                    historyVars, reduceVars, plannerVars, concurrencyVars >>

\* Lines 890-896: a message item only adds to the final text.
ReadMessageItem ==
    /\ pc = "tools"
    /\ itemIdx <= Len(response)
    /\ ~IsCall(response[itemIdx])
    /\ itemIdx' = itemIdx + 1
    /\ UNCHANGED << pc, files, plan, executionState, stepIndex, currentFiles,
                    allToolResults, totalIterations, stepCompleted, stepIterations,
                    stepAttemptHistory, response, stepSignaledComplete, dispatched, idSeq,
                    overallEvaluation, verifierCalls, processedResults, recordVars, evalVars,
                    historyVars, reduceVars, plannerVars, concurrencyVars >>

\* Line 868 and 1105-1108: JSON.parse(item.arguments) throws.
ArgumentsParseFails ==
    /\ pc = "tools"
    /\ itemIdx <= Len(response)
    /\ IsCall(response[itemIdx])
    /\ ~response[itemIdx].parses
    /\ pc' = "error"
    /\ UNCHANGED << files, plan, executionState, stepIndex, currentFiles, allToolResults,
                    totalIterations, stepCompleted, stepIterations, stepAttemptHistory,
                    response, itemIdx, stepSignaledComplete, dispatched, idSeq,
                    overallEvaluation, verifierCalls, processedResults, recordVars, evalVars,
                    historyVars, reduceVars, plannerVars, concurrencyVars >>

\* The dispatcher is given the request's manifest.
workspaceShownInitial == files

\* Line 869: the workspace the dispatcher is given.
workspaceShown == currentFiles

\* Lines 871-876.
makeToolResult(item, result, currentStep) ==
    [tool |-> item.name, success |-> result.success, result |-> result.result,
     stepId |-> currentStep.id]

\* Lines 867-889: one function call is dispatched, recorded and folded.
DispatchToolCall ==
    /\ pc = "tools"
    /\ itemIdx <= Len(response)
    /\ IsCall(response[itemIdx])
    /\ response[itemIdx].parses
    /\ LET i == stepIndex + 1
           item == response[itemIdx]
       IN \E image \in (IF item.name = "generate_image" THEN ImageOutcomes ELSE {"data"}) :
            LET result == executeToolCall(item.name, item.args, workspaceShown, idSeq, image)
                toolResult == makeToolResult(item, result, plan.steps[i])
                idAfter == IF item.name = "create_file" THEN idSeq + 1 ELSE idSeq
                processedResult == processToolResults(<< toolResult >>, currentFiles, idAfter)
            IN /\ plan' = [plan EXCEPT !.steps[i].toolResults = Append(@, toolResult)]
               /\ dispatched' = Append(dispatched, result)
               /\ IF result.success
                  THEN /\ currentFiles' = processedResult.files
                       /\ idSeq' = processedResult.nextId
                  ELSE /\ currentFiles' = currentFiles
                       /\ idSeq' = idAfter
               /\ stepSignaledComplete' =
                    (stepSignaledComplete \/ (item.name = "complete_step" /\ result.success))
    /\ itemIdx' = itemIdx + 1
    /\ UNCHANGED << pc, files, executionState, stepIndex, allToolResults, totalIterations,
                    stepCompleted, stepIterations, stepAttemptHistory, response,
                    overallEvaluation, verifierCalls, processedResults, recordVars, evalVars,
                    historyVars, reduceVars, plannerVars, concurrencyVars >>

\* The retry bound tested with >= .
retriesExhaustedEarly(retryCount) == retryCount >= maxRetries

\* Line 918, on the count already incremented.
retriesExhausted(retryCount) == retryCount > maxRetries

\* Lines 899-925: the attempt is scored, if there is anything to score.
\* Were every attempt evaluated.
attemptScoredAlways(signaled, results) == TRUE

\* Line 899: an attempt is evaluated when the step signalled completion or
\* the attempt has tool results.
attemptScored(signaled, results) == signaled \/ Len(results) > 0

\* Were a failed step listed without being counted.
recordFailedUncounted(state, id) == [state EXCEPT !.failedSteps = Append(@, id)]

\* Lines 922-923 and 932-933: the failed step's id is listed and counted.
recordFailed(state, id) ==
    [state EXCEPT !.failedSteps = Append(@, id), !.evaluationsFailed = @ + 1]

EvaluateAttempt ==
    /\ pc = "tools"
    /\ itemIdx > Len(response)
    /\ LET i == stepIndex + 1
           currentStep == plan.steps[i]
           evaluation == evaluateStep(currentStep)
       IN IF attemptScored(stepSignaledComplete, currentStep.toolResults)
          THEN /\ stepAttemptHistory' =
                    [stepAttemptHistory EXCEPT ![i] =
                        Append(@, [attempt |-> stepIterations[i],
                                   results |-> currentStep.toolResults,
                                   success |-> evaluation.success])]
               /\ allToolResults' = allToolResults \o currentStep.toolResults
               /\ IF evaluation.success
                  THEN /\ plan' = [plan EXCEPT !.steps[i].evaluation = << evaluation >>,
                                               !.steps[i].status = "completed"]
                       /\ executionState' =
                            [executionState EXCEPT
                               !.completedSteps = Append(@, currentStep.id),
                               !.evaluationsPassed = @ + 1]
                       /\ stepCompleted' = [stepCompleted EXCEPT ![i] = TRUE]
                  ELSE IF retriesExhausted(currentStep.retryCount + 1)
                  THEN /\ plan' = [plan EXCEPT !.steps[i].evaluation = << evaluation >>,
                                               !.steps[i].retryCount = @ + 1,
                                               !.steps[i].status = "failed"]
                       /\ executionState' = recordFailed(executionState, currentStep.id)
                       /\ stepCompleted' = [stepCompleted EXCEPT ![i] = TRUE]
                  ELSE /\ plan' = [plan EXCEPT !.steps[i].evaluation = << evaluation >>,
                                               !.steps[i].retryCount = @ + 1]
                       /\ UNCHANGED << executionState, stepCompleted >>
          ELSE UNCHANGED << plan, executionState, stepCompleted, stepAttemptHistory,
                            allToolResults >>
    /\ response' = << >>
    /\ itemIdx' = 1
    /\ stepSignaledComplete' = FALSE
    /\ pc' = "attempt"
    /\ UNCHANGED << files, stepIndex, currentFiles, totalIterations, stepIterations,
                    dispatched, idSeq, overallEvaluation, verifierCalls, processedResults,
                    recordVars, evalVars,
                    historyVars, reduceVars, plannerVars, concurrencyVars >>

\* Were the loop's exit to put an unfinished step back to pending.
statusOnExitPending(completed, status) == IF ~completed THEN "pending" ELSE status

\* The loop's exit without lines 930-934.
statusOnExitKept(completed, status) == status

\* Lines 930-931: a step that left the loop without being settled has failed.
statusOnExit(completed, status) == IF ~completed THEN "failed" ELSE status

\* Fail-fast: a failed step ends the for loop.
continueFromBreaking(index) ==
    IF plan'.steps[index + 1].status = "failed" THEN Len(plan.steps) ELSE index + 1

\* Lines 791 and 935: the for loop goes on with the next step, whatever this one's status.
continueFrom(index) == index + 1

\* Lines 926-935: the attempt loop is left and the for loop moves on.
ExitAttemptLoop ==
    /\ pc = "attempt"
    /\ ~whileCondition(stepIndex + 1)
    /\ LET i == stepIndex + 1
           merged == FlatResults(stepAttemptHistory[i])
       IN IF ~stepCompleted[i]
          THEN /\ plan' = [plan EXCEPT !.steps[i].toolResults = merged,
                                       !.steps[i].status = statusOnExit(stepCompleted[i], @)]
               /\ executionState' = recordFailed(executionState, plan.steps[i].id)
          ELSE /\ plan' = [plan EXCEPT !.steps[i].toolResults = merged]
               /\ UNCHANGED executionState
    /\ stepIndex' = continueFrom(stepIndex)
    /\ dispatched' = << >>
    /\ pc' = "step"
    /\ UNCHANGED << files, currentFiles, allToolResults, totalIterations, stepCompleted,
                    stepIterations, stepAttemptHistory, response, itemIdx,
                    stepSignaledComplete, idSeq, overallEvaluation,
                    verifierCalls, processedResults, recordVars, evalVars,
                    historyVars, reduceVars, plannerVars, concurrencyVars >>

\* The for loop ended one step early.
allStepsProcessedEarly == stepIndex + 1 >= Len(plan.steps)

\* Line 791: the for loop has ended.
allStepsProcessed == stepIndex >= Len(plan.steps)

\* What the database does in the persistence block: every statement succeeds,
\* the update of the project throws, the update of the execution record
\* throws, the inserts into agentMemory throw, or those into agentLearnings do.
DbOutcomes == {"ok", "projectUpdateFails", "recordUpdateFails",
               "memoryInsertFails", "learningInsertFails"}

\* Lines 941-1027 with updateExecutionRecord (677-698): without a project or
\* without a record id nothing is updated; a throw of the project update
\* skips the rest of the block (catch at 1024), a throw of the record update
\* is swallowed by updateExecutionRecord.
persisted(record, project, overallSuccess, db) ==
    IF project = Null \/ record = Null \/ db \in {"projectUpdateFails", "recordUpdateFails"}
    THEN record
    ELSE [finalOutcome |-> IF overallSuccess THEN "completed" ELSE "partial",
          completedAt |-> << "now" >>]

\* Lines 961-980: the execution summary is stored, and the enhancements when
\* the plan has some; storeMemory (622-640) swallows a failed insert.
memoryWrites(p, db) ==
    << StoreOp("storeMemory execution_summary", db # "memoryInsertFails") >>
    \o (IF Len(p.proactiveEnhancements) > 0
        THEN << StoreOp("storeMemory proactive_enhancement", db # "memoryInsertFails") >>
        ELSE << >>)

\* Lines 1004-1022: a failure pattern when a step failed, a success pattern
\* when the run is an overall success; storeLearning (642-660) swallows a
\* failed insert.
learningWrites(state, db) ==
    (IF Len(state.failedSteps) > 0
     THEN << StoreOp("storeLearning failure_pattern", db # "learningInsertFails") >>
     ELSE << >>)
    \o (IF state.overallSuccess
        THEN << StoreOp("storeLearning success_pattern", db # "learningInsertFails") >>
        ELSE << >>)

\* The database operations of the persistence block (942-1023) up to the one
\* that throws: the project update, the memory writes, and with a record id
\* the record update and the learning writes.
persistenceLog(record, db, p, state) ==
    IF db = "projectUpdateFails" THEN << StoreOp("updateProject", FALSE) >>
    ELSE << StoreOp("updateProject", TRUE) >>
         \o memoryWrites(p, db)
         \o (IF record = Null THEN << >>
             ELSE << StoreOp("updateExecutionRecord", db # "recordUpdateFails") >>
                  \o learningWrites(state, db))

\* Were a throw of the persistence block to reach the handler's catch.
afterPersistenceRethrown(db) == IF db = "ok" THEN "report" ELSE "error"

\* Lines 942 and 1024-1026: whatever the persistence block did, the handler
\* goes on to the report.
afterPersistence(db) == "report"

\* Lines 937-1027: the Outcome Verifier, the aggregate fold and persistence.
VerifyOutcome ==
    /\ pc = "step"
    /\ allStepsProcessed
    /\ \E resp \in VerifierResponses :
         /\ overallEvaluation' = evaluateOverallOutcome(plan, currentFiles, Prompt, resp)
         /\ verifierCalls' =
              Append(verifierCalls, [plan |-> plan, files |-> currentFiles, answer |-> resp])
    /\ executionState' =
         [executionState EXCEPT !.overallSuccess =
            IF "goalAchieved" \in DOMAIN overallEvaluation'
            THEN overallEvaluation'.goalAchieved ELSE FALSE]
    /\ processedResults' = processToolResults(allToolResults, files, idSeq)
    /\ IF projectId = Null
       THEN /\ executionRecord' = executionRecord
            /\ storeLog' = storeLog
            /\ pc' = "report"
       ELSE \E db \in DbOutcomes :
              /\ executionRecord' =
                    persisted(executionRecord, projectId, executionState'.overallSuccess, db)
              /\ storeLog' = storeLog \o persistenceLog(executionRecord, db, plan, executionState')
              /\ pc' = afterPersistence(db)
    /\ UNCHANGED << files, plan, stepIndex, currentFiles, allToolResults, totalIterations,
                    stepCompleted, stepIterations, stepAttemptHistory, response, itemIdx,
                    stepSignaledComplete, dispatched, idSeq, projectId, memories, learnings,
                    evalVars,
                    historyVars, reduceVars, plannerVars, concurrencyVars >>

\* Lines 1047-1048: the report reads gaps.length and suggestions.length.
reportReadable(verdict) == {"gaps", "suggestions"} \subseteq DOMAIN verdict

\* Lines 1029-1104: the report is built and the handler answers 200.
Respond ==
    /\ pc = "report"
    /\ reportReadable(overallEvaluation)
    /\ pc' = "done"
    /\ UNCHANGED << files, plan, executionState, stepIndex, currentFiles, allToolResults,
                    totalIterations, stepCompleted, stepIterations, stepAttemptHistory,
                    response, itemIdx, stepSignaledComplete, dispatched, idSeq,
                    overallEvaluation, verifierCalls, processedResults, recordVars, evalVars,
                    historyVars, reduceVars, plannerVars, concurrencyVars >>

\* Lines 1047-1048 and 1105-1108: a verdict without the lists makes the
\* report throw a TypeError, and the handler answers 500.
ReportThrows ==
    /\ pc = "report"
    /\ ~reportReadable(overallEvaluation)
    /\ pc' = "error"
    /\ UNCHANGED << files, plan, executionState, stepIndex, currentFiles, allToolResults,
                    totalIterations, stepCompleted, stepIterations, stepAttemptHistory,
                    response, itemIdx, stepSignaledComplete, dispatched, idSeq,
                    overallEvaluation, verifierCalls, processedResults, recordVars, evalVars,
                    historyVars, reduceVars, plannerVars, concurrencyVars >>

Next ==
    \/ GeneratePlan
    \/ StartStep
    \/ StepExecutorRoundTrip
    \/ StepExecutorThrows
    \/ ReadMessageItem
    \/ ArgumentsParseFails
    \/ DispatchToolCall
    \/ EvaluateAttempt
    \/ ExitAttemptLoop
    \/ VerifyOutcome
    \/ Respond
    \/ ReportThrows

Spec == Init /\ [][Next]_vars

(* ------------- the engine on the fallback plan, any tool -------------- *)

\* The answers of the planning model that end in createDefaultPlan.
PlanningFailures ==
    { [kind |-> "throws"], [kind |-> "text"] }
    \cup { [kind |-> "json", value |-> v] :
             v \in {EmptyObject, [goal |-> Prompt, steps |-> << >>]} }

\* Further function calls: the file with the first fresh id (the first file
\* the run creates) is deleted or read, the files are listed, an image is
\* generated.
DeleteNew == Call("delete_file", [fileId |-> FirstFreshId, filename |-> "b"])

ReadNew == Call("read_file", [fileId |-> FirstFreshId])

ListFiles == Call("list_files", EmptyObject)

GenerateImage == Call("generate_image", [filename |-> "x.png", prompt |-> "logo"])

ToolItems == { CreateB, DeleteNew, ReadNew, ListFiles, GenerateImage }

\* response.output of one round-trip: up to MaxToolCalls function calls.
ToolResponses == { r \in SeqsUpTo(ToolItems, MaxToolCalls) : r # << >> }

\* A request with or without projectId.
ProjectIds == { Null, [id |-> "p1"] }

RunInit ==
    /\ EngineInit
    /\ OneInvocation
    /\ projectId \in ProjectIds
    /\ conversationHistory = << >>
    /\ thresholdArg = defaultMaxMessages
    /\ NothingApplied

GeneratePlanFallback == GeneratePlanFrom(PlanningFailures)

StepExecutorRoundTripAnyTool == RoundTripFrom(ToolResponses)

RunNext ==
    \/ GeneratePlanFallback
    \/ StartStep
    \/ StepExecutorRoundTripAnyTool
    \/ StepExecutorThrows
    \/ DispatchToolCall
    \/ EvaluateAttempt
    \/ ExitAttemptLoop
    \/ VerifyOutcome
    \/ Respond
    \/ ReportThrows

SpecRun == RunInit /\ [][RunNext]_vars

(* ------------------- the Strategic Planner on its own ----------------- *)

Goals == { Prompt, "fix the bug", "add a page" }

PlanInit ==
    /\ EngineInit
    /\ OneInvocation
    /\ projectId = Null
    /\ conversationHistory = << >>
    /\ thresholdArg = defaultMaxMessages
    /\ evalArg = << >> /\ evalOut = << >>
    /\ reduceArg = Null /\ reduceOut = Null
    /\ planArg \in [goal : Goals, resp : PlannerResponses]
    /\ planOut = Null

ApplyGenerateStrategicPlan ==
    /\ planOut = Null
    /\ planOut' = generateStrategicPlan(planArg.goal, planArg.resp)
    /\ UNCHANGED << engineVars, planArg, evalVars, historyVars, reduceVars, concurrencyVars >>

PlanNext == ApplyGenerateStrategicPlan

SpecPlan == PlanInit /\ [][PlanNext]_vars

(* ------------------- the Step Evaluator on its own -------------------- *)

\* ToolResults as a caller of evaluateStep may hold them: succeeded, failed
\* with a null result, failed with a result that carries an error.
EvalResults ==
    { [tool |-> "create_file", success |-> TRUE,
       result |-> [action |-> "complete_step"], stepId |-> "step_1"],
      [tool |-> "run_terminal", success |-> TRUE,
       result |-> [action |-> "run_terminal"], stepId |-> "step_1"],
      [tool |-> "edit_file", success |-> FALSE, result |-> Null, stepId |-> "step_1"],
      [tool |-> "read_file", success |-> FALSE,
       result |-> [error |-> "File not found"], stepId |-> "step_1"] }

EvalInit ==
    /\ EngineInit
    /\ OneInvocation
    /\ projectId = Null
    /\ conversationHistory = << >>
    /\ thresholdArg = defaultMaxMessages
    /\ evalArg \in SeqsUpTo(EvalResults, MaxResults)
    /\ evalOut = << >>
    /\ reduceArg = Null /\ reduceOut = Null
    /\ planArg = Null /\ planOut = Null

ApplyEvaluateStep ==
    /\ evalOut = << >>
    /\ evalOut' = << evaluateStep([toolResults |-> evalArg]) >>
    /\ UNCHANGED << engineVars, evalArg, historyVars, reduceVars, plannerVars,
                    concurrencyVars >>

EvalNext == ApplyEvaluateStep

SpecEval == EvalInit /\ [][EvalNext]_vars

(* ------------------- context compaction on its own -------------------- *)

\* Who speaks in a history: user and assistant in turn, the user or the
\* assistant first, or the user only.
RolePatterns == {"userFirst", "assistantFirst", "userOnly"}

roleAt(pattern, k) ==
    CASE pattern = "userFirst" -> IF k % 2 = 1 THEN "user" ELSE "assistant"
      [] pattern = "assistantFirst" -> IF k % 2 = 1 THEN "assistant" ELSE "user"
      [] OTHER -> "user"

\* The histories a request may carry, each message with a text of its own.
Histories ==
    { [k \in 1..n |-> [role |-> roleAt(p, k), content |-> "m" \o ToString(k)]] :
        n \in 0..MaxHistory, p \in RolePatterns }

CompactInit ==
    /\ EngineInit
    /\ OneInvocation
    /\ projectId = Null
    /\ conversationHistory \in Histories
    /\ thresholdArg = defaultMaxMessages
    /\ NothingApplied

\* Line 759.
ApplyCompactContext ==
    /\ compactedHistory = << >>
    /\ compactedHistory' = << compactContext(conversationHistory, defaultMaxMessages) >>
    /\ UNCHANGED << pc, files, plan, executionState, stepIndex, currentFiles,
                    allToolResults, totalIterations, stepCompleted, stepIterations,
                    stepAttemptHistory, response, itemIdx, stepSignaledComplete, dispatched,
                    idSeq, overallEvaluation, verifierCalls, processedResults, projectId,
                    executionRecord, memories, learnings, storeLog, conversationHistory,
                    thresholdArg, evalVars, reduceVars, plannerVars, concurrencyVars >>

CompactNext == ApplyCompactContext

SpecCompact == CompactInit /\ [][CompactNext]_vars

(* ------------------- the Workspace Reducer on its own ----------------- *)

\* The ToolResult the engine records for a call the dispatcher ran on `curFiles`.
recordedResult(name, args, curFiles, newId) ==
    LET result == executeToolCall(name, args, curFiles, newId, "data") IN
    [tool |-> name, success |-> result.success, result |-> result.result,
     stepId |-> "step_1"]

\* Results of calls dispatched on a workspace that holds /a with id 1: a file
\* is created at /b, one at /a (the dispatcher does not look at the paths in
\* use), file 1 is edited, file 2 is edited and renamed (on a workspace that
\* has it), file 1 or file 2 is deleted, an image is generated, a file that
\* does not exist is read.
ReduceResults ==
    LET m == CHOOSE f \in InitialManifests : TRUE IN
    { recordedResult("create_file", [filename |-> "b", content |-> "y", path |-> "/"], m, 2),
      recordedResult("create_file", [filename |-> "a", content |-> "w", path |-> "/"], m, 3),
      recordedResult("edit_file", [fileId |-> 1, newContent |-> "z", newFilename |-> ""], m, 4),
      recordedResult("edit_file", [fileId |-> 2, newContent |-> "v", newFilename |-> "c"], m \o
                     << [id |-> 2, name |-> "b", type |-> "file", path |-> "/b",
                         content |-> "y"] >>, 4),
      recordedResult("delete_file", [fileId |-> 1, filename |-> "a"], m, 4),
      recordedResult("delete_file", [fileId |-> 2, filename |-> "b"], m, 4),
      recordedResult("generate_image", [filename |-> "x.png", prompt |-> "logo"], m, 4),
      recordedResult("read_file", [fileId |-> 99], m, 4) }

\* The ids the reducer gives to image files in a fold on its own.
ReduceFreshId == 10

ReduceInit ==
    /\ EngineInit
    /\ OneInvocation
    /\ projectId = Null
    /\ conversationHistory = << >>
    /\ thresholdArg = defaultMaxMessages
    /\ evalArg = << >> /\ evalOut = << >>
    /\ reduceArg \in [files : InitialManifests \cup { << >> },
                      toolCalls : SeqsUpTo(ReduceResults, MaxBatch)]
    /\ reduceOut = Null
    /\ planArg = Null /\ planOut = Null

\* The batch is folded over the manifest, and again over the result.
ApplyProcessToolResults ==
    /\ reduceOut = Null
    /\ LET once == processToolResults(reduceArg.toolCalls, reduceArg.files, ReduceFreshId)
           twice == processToolResults(reduceArg.toolCalls, once.files, once.nextId)
           onHeap == processToolResultsOnHeap(reduceArg.toolCalls, HeapOf(reduceArg.files),
                                              1, ReduceFreshId)
       IN reduceOut' = [once |-> once.files, twice |-> twice.files,
                        heap |-> onHeap.heap, files |-> onHeap.list]
    /\ UNCHANGED << engineVars, reduceArg, evalVars, historyVars, plannerVars,
                    concurrencyVars >>

ReduceNext == ApplyProcessToolResults

SpecReduce == ReduceInit /\ [][ReduceNext]_vars

(* ------------------------------ properties ---------------------------- *)

StepCount == Len(plan.steps)

Settled(status) == status \in {"completed", "failed", "skipped"}

\* The for loop has gone through the whole plan.
EnginePassFinished == pc # "plan" /\ stepIndex >= StepCount

\* Step j (1-based) has had its turn and the loop has moved on.
Processed(j) == j <= stepIndex

\* Step j's turn has arrived.
TurnArrived(j) == Processed(j) \/ (j = stepIndex + 1 /\ pc \in {"attempt", "tools", "error"})

\* The step a dependency id names: the first with that id, 0 when there is none.
StepNamed(depId) == FindIndex(plan.steps, depId)

\* At step j's turn the steps before it have the status they still have, and
\* step j and the steps after it are not yet settled.
CompletedAtTurn(j, depId) ==
    StepNamed(depId) # 0 /\ StepNamed(depId) < j
        /\ plan.steps[StepNamed(depId)].status = "completed"

FailedOrSkippedAtTurn(j, depId) ==
    StepNamed(depId) # 0 /\ StepNamed(depId) < j
        /\ plan.steps[StepNamed(depId)].status \in {"failed", "skipped"}

UnmetAtTurn(j) == \E d \in plan.steps[j].dependencies : ~CompletedAtTurn(j, d)

FailedEvaluations(j) ==
    Cardinality({ k \in 1..Len(stepAttemptHistory[j]) : ~stepAttemptHistory[j][k].success })

(* C1: when the engine pass has finished, every step is completed, failed or
   skipped, and the three id lists together hold as many ids as the plan has steps. *)
C1_EveryStepSettled ==
    EnginePassFinished =>
        /\ \A j \in 1..StepCount : Settled(plan.steps[j].status)
        /\ Len(executionState.completedSteps) + Len(executionState.failedSteps)
             + Len(executionState.skippedSteps) = StepCount

\* A finished pass of a two-step plan with a failed and a skipped step.
C1_Witness ==
    /\ EnginePassFinished
    /\ StepCount = 2
    /\ Len(executionState.failedSteps) = 1
    /\ Len(executionState.skippedSteps) = 1

C2_SkippedUntouched ==
    \A j \in 1..StepCount :
        (TurnArrived(j) /\ UnmetAtTurn(j)) =>
            /\ plan.steps[j].status = "skipped"
            /\ plan.steps[j].retryCount = 0
            /\ plan.steps[j].evaluation = << >>
            /\ plan.steps[j].toolResults = << >>
            /\ stepIterations[j] = 0
            /\ stepAttemptHistory[j] = << >>

C2_SkipStep ==
    (pc = "step" /\ stepIndex < StepCount /\ UnmetAtTurn(stepIndex + 1)) =>
        /\ stepIndex' = stepIndex + 1
        /\ pc' = "step"
        /\ plan'.steps[stepIndex + 1].status = "skipped"
        /\ UNCHANGED << currentFiles, totalIterations, allToolResults, idSeq, response,
                        dispatched >>

(* C2: a step that has, when its turn arrives, a dependency whose step is not
   completed ends skipped without being executed: no round-trip, no tool
   call, no evaluation, retryCount 0, and the step that skips it leaves the
   workspace and the iteration counter as they were. *)
C2_UnmetDependencySkips == [](C2_SkippedUntouched) /\ [][C2_SkipStep]_vars

\* A step was skipped after an earlier step ran and changed the workspace.
C2_Witness ==
    \E j \in 1..StepCount :
        /\ Processed(j) /\ UnmetAtTurn(j)
        /\ plan.steps[j].status = "skipped"
        /\ totalIterations > 0
        /\ currentFiles # files

\* Step j's first attempt held a failing tool call and its second attempt
\* held tool results that all succeeded.
RetriedOnce(j) ==
    LET h == stepAttemptHistory[j] IN
    /\ Len(h) >= 2
    /\ h[1].attempt = 1 /\ \E k \in 1..Len(h[1].results) : ~h[1].results[k].success
    /\ h[2].attempt = 2 /\ h[2].results # << >>
    /\ \A k \in 1..Len(h[2].results) : h[2].results[k].success

(* C3: a step whose first attempt has a failing tool call and whose second
   attempt is all-success ends completed with retryCount 1 and the evaluation
   {true, 100, []}; while an attempt runs, toolResults holds one result per
   function call of this attempt's response dispatched so far and nothing of
   an earlier attempt, and each scored attempt is recorded with the results
   that were scored. *)
C3_RetryScoresSecondAttemptOnly ==
    /\ \A j \in 1..StepCount :
         RetriedOnce(j) =>
            /\ plan.steps[j].status = "completed"
            /\ plan.steps[j].retryCount = 1
            /\ plan.steps[j].evaluation =
                 << [success |-> TRUE, score |-> 100, issues |-> << >>] >>
    /\ pc = "tools" =>
         LET results == plan.steps[stepIndex + 1].toolResults
             calls == SelectSeq(SubSeq(response, 1, itemIdx - 1), IsCall)
         IN /\ Len(results) = Len(calls)
            /\ \A k \in 1..Len(results) : results[k].tool = calls[k].name
    /\ \A j \in 1..StepCount :
         (TurnArrived(j) /\ ~Processed(j) /\ pc = "attempt"
            /\ stepAttemptHistory[j] # << >>) =>
            LET last == stepAttemptHistory[j][Len(stepAttemptHistory[j])] IN
            /\ last.results # << >>
            /\ plan.steps[j].evaluation = << evaluateStep([toolResults |-> last.results]) >>
            /\ last.success = plan.steps[j].evaluation[1].success

C3_Witness == \E j \in 1..StepCount : RetriedOnce(j) /\ plan.steps[j].status = "completed"

(* C4: a step that is not failed has retryCount <= 2; retryCount is the
   number of the step's failed evaluations; a step is marked failed inside
   the attempt loop exactly when its retryCount exceeds 2, which is on its
   third failed evaluation. *)
C4_AtMostTwoRetries ==
    \A j \in 1..StepCount :
        /\ plan.steps[j].status # "failed" => plan.steps[j].retryCount <= 2
        /\ plan.steps[j].retryCount = FailedEvaluations(j)
        /\ plan.steps[j].retryCount <= 3
        /\ (plan.steps[j].status = "failed" /\ stepCompleted[j])
             <=> plan.steps[j].retryCount > 2

\* A step failed on its third failed evaluation.
C4_Witness ==
    \E j \in 1..StepCount :
        plan.steps[j].status = "failed" /\ plan.steps[j].retryCount = 3

(* C5: no step gets more than 5 Step Executor round-trips, and the
   invocation's round-trips are those of its steps; a step that used its 5
   round-trips without a successful evaluation is failed, and the failed list
   and the failed counter hold one entry per failed step. *)
C5_AtMostFiveRoundTrips ==
    /\ \A j \in 1..StepCount : stepIterations[j] <= 5
    /\ totalIterations = SumSeq(stepIterations)
    /\ \A j \in 1..StepCount :
         (Processed(j) /\ stepIterations[j] = 5 /\ plan.steps[j].status # "completed")
            => plan.steps[j].status = "failed"
    /\ Len(executionState.failedSteps)
         = Cardinality({ j \in 1..StepCount : plan.steps[j].status = "failed" })
    /\ executionState.evaluationsFailed = Len(executionState.failedSteps)
    /\ \A j \in 1..StepCount :
         plan.steps[j].status = "failed" =>
            \E k \in 1..Len(executionState.failedSteps) :
                executionState.failedSteps[k] = plan.steps[j].id

\* A step failed at the iteration bound after failed evaluations and
\* attempts without action.
C5_Witness ==
    \E j \in 1..StepCount :
        /\ Processed(j)
        /\ stepIterations[j] = 5
        /\ plan.steps[j].status = "failed"
        /\ plan.steps[j].retryCount \in 1..2

(* C6 as claimed: after a failed step, every later step none of whose
   dependencies is failed or skipped is executed. *)
C6_Original ==
    \A i \in 1..StepCount : \A j \in 1..StepCount :
        (i < j /\ Processed(j) /\ plan.steps[i].status = "failed"
           /\ \A d \in plan.steps[j].dependencies : ~FailedOrSkippedAtTurn(j, d))
        => stepIterations[j] >= 1

(* C6, amended: a failed step does not stop the pass. Every step whose turn
   has passed and whose dependencies all name earlier steps that are completed
   was executed, whatever failed before it; a step marked failed inside the
   loop is left by the loop's exit, and once every step is processed the
   Outcome Verifier can run. *)
C6_FailureDoesNotStopThePass ==
    /\ \A j \in 1..StepCount :
         (Processed(j) /\ \A d \in plan.steps[j].dependencies : CompletedAtTurn(j, d))
            => /\ stepIterations[j] >= 1
               /\ plan.steps[j].status \in {"completed", "failed"}
    /\ \A j \in 1..StepCount :
         (plan.steps[j].status = "failed" /\ ~Processed(j))
            => (pc = "attempt" /\ ENABLED ExitAttemptLoop)
    /\ (pc = "step" /\ stepIndex >= StepCount) => ENABLED VerifyOutcome

\* After a failed step a later step was executed, and the verifier ran.
C6_Witness ==
    /\ Len(verifierCalls) = 1
    /\ \E i \in 1..StepCount : \E j \in 1..StepCount :
         i < j /\ plan.steps[i].status = "failed" /\ stepIterations[j] >= 1

\* The positions of the failed results of a list, and the m-th of them.
FailedAt(results) == { k \in 1..Len(results) : ~results[k].success }

NthFailed(results, m) ==
    CHOOSE k \in FailedAt(results) :
        Cardinality({ x \in FailedAt(results) : x <= k }) = m

(* C7: evaluateStep on any list of tool results: success iff the list is
   non-empty and nothing failed; for a non-empty list score is
   100 * successes / total rounded to the nearest integer (half up) and
   issues has one entry per failed result, in order, each naming its tool;
   for the empty list the result is {false, 0, ["No tool executions for
   this step"]}; 2 successes and 1 failure give {false, 67, one issue}. *)
C7_EvaluateStepContract ==
    evalOut # << >> =>
        LET e == evalOut[1]
            n == Len(evalArg)
            f == Cardinality(FailedAt(evalArg))
        IN /\ e.success <=> (n > 0 /\ f = 0)
           /\ n > 0 =>
                /\ 2 * n * e.score <= 200 * (n - f) + n
                /\ 200 * (n - f) + n < 2 * n * (e.score + 1)
                /\ Len(e.issues) = f
                /\ \A m \in 1..f :
                     e.issues[m] \in
                        { evalArg[NthFailed(evalArg, m)].tool \o " failed: " \o text :
                            text \in {"Unknown error", "File not found"} }
           /\ n = 0 =>
                e = [success |-> FALSE, score |-> 0,
                     issues |-> << "No tool executions for this step" >>]
           /\ (n = 3 /\ f = 1) =>
                (~e.success /\ e.score = 67 /\ Len(e.issues) = 1)

\* Three results, two of them successes, were scored.
C7_Witness ==
    /\ evalOut # << >>
    /\ Len(evalArg) = 3
    /\ Cardinality(FailedAt(evalArg)) = 1
    /\ evalOut[1].score = 67

(* C8: for the tool calls the engine dispatched in an attempt, the issue the
   Step Evaluator records for a failed call is "<tool> failed: <the error
   the Tool Dispatcher reported for that call>". *)
C8_IssueCarriesDispatcherError ==
    (pc = "attempt" /\ dispatched # << >>) =>
        LET step == plan.steps[stepIndex + 1]
            issues == step.evaluation[1].issues
        IN /\ Len(issues) = Cardinality(FailedAt(dispatched))
           /\ \A m \in 1..Len(issues) :
                issues[m] = step.toolResults[NthFailed(dispatched, m)].tool
                              \o " failed: " \o dispatched[NthFailed(dispatched, m)].error

C9_VerifierOnFinalState ==
    /\ Len(verifierCalls) <= 1
    /\ Len(verifierCalls) = 1 =>
         /\ stepIndex = StepCount
         /\ \A j \in 1..StepCount : Settled(plan.steps[j].status)
         /\ verifierCalls[1].plan = plan
         /\ verifierCalls[1].files = currentFiles
    /\ pc \in {"report", "done"} => Len(verifierCalls) = 1
    /\ Len(verifierCalls) = 0 => pc \in {"plan", "step", "attempt", "tools", "error"}

\* The workspace changes only where a tool call is dispatched and folded.
C9_WorkspaceChange ==
    currentFiles' # currentFiles =>
        (pc = "tools" /\ itemIdx <= Len(response) /\ IsCall(response[itemIdx]))

(* C9: the Outcome Verifier runs at most once, only when every step is
   completed, failed or skipped, and once in every invocation that has gone
   through its plan; it is given the plan with the final statuses and the
   workspace as the last dispatched tool call left it. *)
C9_VerifierRunsOnceAtTheEnd == [](C9_VerifierOnFinalState) /\ [][C9_WorkspaceChange]_vars

\* The verifier ran on a workspace that tool calls had changed, and the
\* handler answered.
C9_Witness ==
    /\ pc = "done"
    /\ Len(verifierCalls) = 1
    /\ verifierCalls[1].files # files
    /\ \E j \in 1..StepCount : plan.steps[j].status = "failed"

\* A verdict the report can use: the four fields.
Usable(answer) ==
    /\ answer.kind = "json"
    /\ {"goalAchieved", "completeness", "gaps", "suggestions"} \subseteq DOMAIN answer.value

(* C10: whenever the verifier's model call yields no usable verdict, the
   verdict is the fallback (goalAchieved iff every step is completed,
   completeness the rounded share of completed steps, gaps the descriptions
   of the failed steps in plan order, no suggestions), so the verdict always
   has its four fields. *)
C10_FallbackWhenNoUsableVerdict ==
    Len(verifierCalls) = 1 =>
        LET done == { j \in 1..StepCount : plan.steps[j].status = "completed" }
            failed == SelectSeq(plan.steps, LAMBDA st : st.status = "failed")
        IN /\ {"goalAchieved", "completeness", "gaps", "suggestions"}
                \subseteq DOMAIN overallEvaluation
           /\ ~Usable(verifierCalls[1].answer) =>
                overallEvaluation =
                    [goalAchieved |-> Cardinality(done) = StepCount,
                     completeness |-> RoundPercent(Cardinality(done), StepCount),
                     gaps |-> [k \in 1..Len(failed) |-> failed[k].description],
                     suggestions |-> << >>]

(* C11: compactContext with the default threshold 20 returns a history of
   at most 20 messages unchanged; a longer one becomes exactly 15 messages:
   one synthetic summary, then the last 14 messages of the input in their
   order, so the most recent message is the last element of the result. *)
C11_CompactKeepsLastFourteen ==
    compactedHistory # << >> =>
        LET n == Len(conversationHistory)
            compacted == compactedHistory[1]
        IN
        /\ n <= 20 => compacted = conversationHistory
        /\ n > 20 =>
             /\ Len(compacted) = 15
             /\ compacted[1].role = "system"
             /\ \A k \in 1..n : compacted[1] # conversationHistory[k]
             /\ \A k \in 1..14 : compacted[k + 1] = conversationHistory[n - 14 + k]
             /\ compacted[15] = conversationHistory[n]

\* A history of 25 messages was compacted.
C11_Witness ==
    /\ compactedHistory # << >>
    /\ Len(conversationHistory) = 25
    /\ Len(compactedHistory[1]) = 15
    /\ compactedHistory[1][2] = conversationHistory[12]

\* The files of a manifest, whatever their order.
FileSet(manifest) == { manifest[k] : k \in 1..Len(manifest) }

(* C12: processToolResults is idempotent on the manifest: for every manifest
   and every ordered batch of ToolResults, folding the batch over the result
   of folding it over the manifest gives the same files as folding it once. *)
C12_ReducerIdempotent ==
    reduceOut # Null => FileSet(reduceOut.twice) = FileSet(reduceOut.once)

\* The paths of a manifest with their contents.
PathContents(manifest) ==
    { << manifest[k].path, manifest[k].content >> : k \in 1..Len(manifest) }

(* C13: at the end of an invocation the manifest returned and persisted, the
   aggregate fold of all recorded ToolResults over the initial manifest, has
   the same file paths with the same contents as the in-progress workspace
   built by the per-call folds, which the Outcome Verifier assessed. *)
C13_AggregateMatchesWorkspace ==
    pc \in {"report", "done"} =>
        /\ PathContents(processedResults.files) = PathContents(currentFiles)
        /\ verifierCalls[1].files = currentFiles

\* The planning answer gives no plan: the call threw, the text is not JSON,
\* or the steps list is missing or empty.
NoPlanGiven(resp) ==
    \/ resp.kind # "json"
    \/ "steps" \notin DOMAIN resp.value
    \/ Len(resp.value.steps) = 0

(* C14: whenever the planning call throws, returns text that is not JSON, or
   returns a plan without steps, generateStrategicPlan returns a plan of
   exactly one step: described by the literal goal, without dependencies,
   pending, retryCount 0, no toolResults. The plan returned always has at
   least one step. *)
C14_PlannerFallback ==
    planOut # Null =>
        /\ Len(planOut.steps) >= 1
        /\ NoPlanGiven(planArg.resp) =>
             /\ Len(planOut.steps) = 1
             /\ planOut.steps[1].description = planArg.goal
             /\ planOut.steps[1].dependencies = {}
             /\ planOut.steps[1].status = "pending"
             /\ planOut.steps[1].retryCount = 0
             /\ planOut.steps[1].toolResults = << >>

\* The planner fell back on a plan with an empty steps list.
C14_Witness ==
    /\ planOut # Null
    /\ planArg.resp.kind = "json"
    /\ "steps" \in DOMAIN planArg.resp.value
    /\ planArg.resp.value.steps = << >>
    /\ planArg.goal = "fix the bug"
    /\ planOut.steps[1].description = "fix the bug"

(* C15: every step of every plan the planner returns is pending, has
   retryCount 0 and no toolResults, whatever the model supplied. *)
C15_StepsNormalized ==
    planOut # Null =>
        \A k \in 1..Len(planOut.steps) :
            /\ planOut.steps[k].status = "pending"
            /\ planOut.steps[k].retryCount = 0
            /\ planOut.steps[k].toolResults = << >>

\* The model supplied a completed step with retries and results.
C15_Witness ==
    /\ planOut # Null
    /\ ~NoPlanGiven(planArg.resp)
    /\ planArg.resp.value.steps[1].status = "completed"
    /\ planArg.resp.value.steps[1].retryCount = 3
    /\ planArg.resp.value.steps[1].toolResults # << >>
    /\ planOut.steps[1].status = "pending"

(* C16: in every plan handed to the Execution Engine the step ids are
   unique and each step's dependencies name only steps that precede it in
   plan order. *)
C16_PlanWellFormed ==
    pc # "plan" =>
        /\ \A j, k \in 1..StepCount : plan.steps[j].id = plan.steps[k].id => j = k
        /\ \A k \in 1..StepCount :
             \A depId \in plan.steps[k].dependencies :
                \E j \in 1..(k - 1) : plan.steps[j].id = depId

\* The function calls of the response whose items have been gone through.
CallsProcessed ==
    Cardinality({ k \in 1..(itemIdx - 1) : k <= Len(response) /\ IsCall(response[k]) })

(* C17: every tool call the model requests in an attempt yields exactly one
   ToolResult in the step's toolResults, a failed one when the tool name is
   unknown, the target is missing or the collaborator fails; no failure of a
   requested tool call aborts the engine pass. *)
C17_EveryCallYieldsOneResult ==
    /\ pc = "tools" =>
         Len(plan.steps[stepIndex + 1].toolResults) = CallsProcessed
    /\ pc = "error" =>
         ~(itemIdx <= Len(response) /\ IsCall(response[itemIdx]))

(* C20: every invocation returns a best-effort result with the execution
   state and an outcome verification, whatever fails in the planner call, the
   Step Executor round-trips, the tool calls, the verifier call or
   persistence; it never ends with a bare error. *)
C20_NeverBareError ==
    /\ pc # "error"
    /\ pc = "done" =>
         /\ Len(verifierCalls) = 1
         /\ {"completeness", "gaps"} \subseteq DOMAIN overallEvaluation

\* The ToolResults of the run so far, in the order of the calls: those of the
\* scored attempts and, while a response is gone through, those of this attempt.
RunResults ==
    IF pc = "tools" THEN allToolResults \o plan.steps[stepIndex + 1].toolResults
    ELSE allToolResults

\* The successful results folded one after the other over a manifest; nextId
\* follows the ids handed out to created files and to image files.
RECURSIVE FoldedOneByOne(_, _, _)
FoldedOneByOne(results, manifest, nextId) ==
    IF results = << >> THEN manifest
    ELSE LET r == Head(results)
             idAfter == IF r.tool = "create_file" THEN nextId + 1 ELSE nextId
             folded == processToolResults(<< r >>, manifest, idAfter)
         IN IF r.success
            THEN FoldedOneByOne(Tail(results), folded.files, folded.nextId)
            ELSE FoldedOneByOne(Tail(results), manifest, idAfter)

\* The workspace of the run: every earlier successful call folded over the
\* initial manifest.
RunWorkspace == FoldedOneByOne(RunResults, files, FirstFreshId)

\* A step that dispatches read_file or list_files answers from RunWorkspace.
C18_ReadAnswersFromWorkspace ==
    (/\ pc = "tools"
     /\ itemIdx <= Len(response)
     /\ itemIdx' = itemIdx + 1
     /\ IsCall(response[itemIdx])
     /\ response[itemIdx].name \in {"read_file", "list_files"})
    => LET item == response[itemIdx]
           recorded == plan'.steps[stepIndex + 1].toolResults
           r == recorded[Len(recorded)]
           W == RunWorkspace
       IN IF item.name = "list_files"
          THEN /\ r.success
               /\ r.result.files = [k \in 1..Len(W) |->
                                      [id |-> W[k].id, name |-> W[k].name,
                                       path |-> W[k].path, type |-> W[k].type]]
          ELSE IF \E k \in 1..Len(W) : W[k].id = item.args.fileId
          THEN /\ r.success
               /\ \E k \in 1..Len(W) :
                    /\ W[k].id = item.args.fileId
                    /\ r.result.content = W[k].content
                    /\ r.result.filename = W[k].name
          ELSE ~r.success

(* C18: at any point of a run the in-progress workspace is the initial
   manifest with every earlier successful tool call of the run folded over
   it, and read_file and list_files return exactly the files of that
   workspace: a file created earlier is readable, a file deleted earlier is
   reported not found. *)
C18_ReadToolsSeeWorkspace ==
    [](currentFiles = RunWorkspace) /\ [][C18_ReadAnswersFromWorkspace]_vars

\* A file was created, deleted and then read in vain.
C18_Witness ==
    /\ pc = "tools"
    /\ LET recorded == plan.steps[stepIndex + 1].toolResults IN
       /\ Len(recorded) = 3
       /\ recorded[1].tool = "create_file" /\ recorded[1].success
       /\ recorded[2].tool = "delete_file" /\ recorded[2].success
       /\ recorded[3].tool = "read_file" /\ ~recorded[3].success
    /\ currentFiles = files

(* C19: for every invocation that created an execution record, finalOutcome
   leaves in_progress for a terminal value exactly once, completedAt is set
   at that change and at no other time, and no invocation that has ended
   leaves its record in_progress. *)
C19_RecordClosedOnce ==
    executionRecord # Null =>
        /\ (executionRecord.finalOutcome = "in_progress")
              <=> (executionRecord.completedAt = << >>)
        /\ pc \in {"done", "error"} => executionRecord.finalOutcome # "in_progress"

\* The operations of the store log that threw.
FailedStoreOps == { storeLog[k].op : k \in { i \in 1..Len(storeLog) : ~storeLog[i].ok } }

\* The body of the 200 response that the claim names: the plan summary, the
\* execution state, the outcome verification and updatedFiles.
ReportedOutcome ==
    [plan |-> [goal |-> plan.goal, complexity |-> plan.complexity,
               steps |-> [k \in 1..Len(plan.steps) |->
                            [id |-> plan.steps[k].id, status |-> plan.steps[k].status,
                             retryCount |-> plan.steps[k].retryCount]]],
     execution |-> [completed |-> executionState.completedSteps,
                    failed |-> executionState.failedSteps,
                    skipped |-> executionState.skippedSteps,
                    totalIterations |-> totalIterations,
                    evaluationsPassed |-> executionState.evaluationsPassed,
                    evaluationsFailed |-> executionState.evaluationsFailed],
     evaluation |-> overallEvaluation,
     updatedFiles |-> processedResults.files]

\* The same body computed from what the models and the tools did alone: the
\* plan and workspace the verifier was given, its answer, and the tool results.
OutcomeOfModelsAndTools ==
    LET call == verifierCalls[1]
    IN [plan |-> [goal |-> call.plan.goal, complexity |-> call.plan.complexity,
                  steps |-> [k \in 1..Len(call.plan.steps) |->
                               [id |-> call.plan.steps[k].id,
                                status |-> call.plan.steps[k].status,
                                retryCount |-> call.plan.steps[k].retryCount]]],
        evaluation |-> evaluateOverallOutcome(call.plan, call.files, Prompt, call.answer),
        updatedFiles |-> processToolResults(allToolResults, files, idSeq).files]

(* C21: no failure of the memory, learning, record or project store aborts a
   run or changes what it returns. A failed retrieval leaves the list empty
   and planning goes on; the handler answers 500 only when the Step Executor
   threw or the report could not read the verdict, never because of the
   store; and the plan summary, the outcome verification and updatedFiles
   of a verified run are the ones the models' and tools' behaviour
   determines, whatever the store log says, and the execution state agrees
   with the statuses of that plan. *)
C21_StoreFailuresLeaveOutcome ==
    /\ "retrieveRelevantMemories" \in FailedStoreOps => memories = << >>
    /\ "retrieveRelevantLearnings" \in FailedStoreOps => learnings = << >>
    /\ FailedStoreOps # {} =>
          /\ pc # "plan"
          /\ executionState.planGenerated
          /\ Len(plan.steps) >= 1
    /\ pc = "error" => verifierCalls = << >> \/ ~reportReadable(overallEvaluation)
    /\ verifierCalls # << >> =>
          /\ ReportedOutcome.plan = OutcomeOfModelsAndTools.plan
          /\ ReportedOutcome.evaluation = OutcomeOfModelsAndTools.evaluation
          /\ ReportedOutcome.updatedFiles = OutcomeOfModelsAndTools.updatedFiles
          /\ \A k \in 1..Len(plan.steps) :
                /\ plan.steps[k].status = "completed"
                      <=> \E i \in 1..Len(executionState.completedSteps) :
                             executionState.completedSteps[i] = plan.steps[k].id
                /\ plan.steps[k].status = "failed"
                      <=> \E i \in 1..Len(executionState.failedSteps) :
                             executionState.failedSteps[i] = plan.steps[k].id
                /\ plan.steps[k].status = "skipped"
                      <=> \E i \in 1..Len(executionState.skippedSteps) :
                             executionState.skippedSteps[i] = plan.steps[k].id

\* A run answered 200 although both retrievals, the insert of the record and
\* the update of the project threw.
C21_Witness ==
    /\ pc = "done"
    /\ {"retrieveRelevantMemories", "retrieveRelevantLearnings", "createExecutionRecord",
        "updateProject"} \subseteq FailedStoreOps
    /\ Len(allToolResults) >= 1

\* How often the invocation called createExecutionRecord, and how many rows
\* that left in agentExecutions.
InsertsAttempted ==
    Cardinality({ k \in 1..Len(storeLog) : storeLog[k].op = "createExecutionRecord" })

RecordsCreated ==
    Cardinality({ k \in 1..Len(storeLog) :
                    storeLog[k].op = "createExecutionRecord" /\ storeLog[k].ok })

(* C22 as claimed: every invocation that got past planning has created
   exactly one execution record. *)
C22_Original == pc # "plan" => RecordsCreated = 1 /\ executionRecord # Null

\* The execution record changes only where it is inserted (planning) and
\* where the invocation updates its own row (the persistence block).
C22_RecordWrittenByItsInvocation ==
    executionRecord' # executionRecord =>
        \/ pc = "plan" /\ executionRecord = Null
        \/ pc = "step" /\ pc' # "step" /\ executionRecord # Null /\ executionRecord' # Null

(* C22, amended: an invocation creates at most one execution record. Past
   planning it has called the insert once if the request names a project and
   never if it does not; it has a record exactly when that one insert
   succeeded, so none without a project and none when the insert threw; and
   the only later write is the update of its own record. *)
C22_AtMostOneRecord ==
    [](/\ pc = "plan" => storeLog = << >> /\ executionRecord = Null
       /\ pc # "plan" =>
             /\ InsertsAttempted = (IF projectId = Null THEN 0 ELSE 1)
             /\ RecordsCreated <= 1
             /\ executionRecord # Null <=> RecordsCreated = 1)
    /\ [][C22_RecordWrittenByItsInvocation]_vars

\* A finished run with a project whose insert threw, and so without a record.
C22_Witness ==
    /\ pc = "done"
    /\ projectId # Null
    /\ InsertsAttempted = 1
    /\ RecordsCreated = 0
    /\ executionRecord = Null

\* The paths of a manifest.
Paths(manifest) == { manifest[k].path : k \in 1..Len(manifest) }

\* The path at which a successful create_file or generate_image result puts its file.
CreatedPath(r) ==
    IF r.tool = "create_file" THEN r.result.file.path ELSE "/images/" \o r.result.filename

\* The paths at which the run created a file or generated an image, that the
\* initial manifest did not have and that the run left in its workspace.
NewPathsLeftInWorkspace ==
    { CreatedPath(allToolResults[k]) :
        k \in { i \in 1..Len(allToolResults) :
                  /\ allToolResults[i].success
                  /\ allToolResults[i].tool \in {"create_file", "generate_image"} } }
    \cap (Paths(currentFiles) \ Paths(files))

\* Every step's first attempt had at least one tool result, and every tool
\* call of the run succeeded.
AllSucceededAtOnce ==
    /\ \A j \in 1..StepCount :
          /\ Len(stepAttemptHistory[j]) >= 1
          /\ stepAttemptHistory[j][1].attempt = 1
          /\ Len(stepAttemptHistory[j][1].results) >= 1
    /\ \A k \in 1..Len(allToolResults) : allToolResults[k].success

(* C23: in a run of a k-step plan whose dependencies point backward, where
   every step's first attempt has at least one tool result and every tool
   call succeeds, all k steps are completed with retryCount 0, no step is
   failed or skipped, there were exactly k round-trips, the returned manifest
   has every path at which the run created a file or generated an image anew
   (and did not remove it again), and the fallback verifier reports the goal
   achieved with completeness 100. *)
C23_AllSuccessRun ==
    (pc \in {"report", "done"} /\ AllSucceededAtOnce) =>
        /\ \A j \in 1..StepCount :
              plan.steps[j].status = "completed" /\ plan.steps[j].retryCount = 0
        /\ Len(executionState.completedSteps) = StepCount
        /\ executionState.failedSteps = << >>
        /\ executionState.skippedSteps = << >>
        /\ totalIterations = StepCount
        /\ NewPathsLeftInWorkspace \subseteq Paths(processedResults.files)
        /\ verifierCalls[1].answer.kind = "throws" =>
              overallEvaluation.goalAchieved /\ overallEvaluation.completeness = 100

(* ---------------- the engine on a long plan, no tool but complete_step --- *)

\* The overall ceiling of the earlier variant of the route, which counts
\* every round-trip of the invocation.
maxIterations == 15

\* A plan of MaxLongSteps steps without dependencies, as the planning model gives it.
LongPlan ==
    [goal |-> Prompt, complexity |-> "complex", proactiveEnhancements |-> << >>,
     steps |-> [k \in 1..MaxLongSteps |->
                  [id |-> "step_" \o ToString(k), description |-> "d" \o ToString(k),
                   dependencies |-> {}, status |-> "pending", retryCount |-> 0,
                   toolResults |-> << >>, evaluation |-> << >>]]]

LongPlannerResponses == { [kind |-> "json", value |-> LongPlan] }

\* response.output of one round-trip: a plain message, or the completion signal.
LongResponses == { << Message >>, << CompleteStep >> }

GenerateLongPlan == GeneratePlanFrom(LongPlannerResponses)

StepExecutorRoundTripLong == RoundTripFrom(LongResponses)

LongNext ==
    \/ GenerateLongPlan
    \/ StartStep
    \/ StepExecutorRoundTripLong
    \/ ReadMessageItem
    \/ DispatchToolCall
    \/ EvaluateAttempt
    \/ ExitAttemptLoop
    \/ VerifyOutcome
    \/ Respond
    \/ ReportThrows

SpecLong == Init /\ [][LongNext]_vars

(* C24: the Step Executor round-trips of one invocation never exceed the
   overall ceiling maxIterations, whatever the number of steps and the
   per-step caps allow. *)
C24_OverallCeiling == totalIterations <= maxIterations

\* The steps with a given status.
StepsWith(status) == { j \in 1..StepCount : plan.steps[j].status = status }

\* The moves of a step's status in one step of the handler. Line 794 puts
\* every step in_progress before the dependency check of 796-804, with no
\* await in between, so a skipped step passes through in_progress inside
\* the step that skips it.
StatusMove(old, new) ==
    \/ old = "pending" /\ new \in {"in_progress", "skipped"}
    \/ old = "in_progress" /\ new \in {"completed", "failed"}

C25_StatusesInOrder ==
    /\ Cardinality(StepsWith("in_progress")) <= 1
    /\ \A j \in StepsWith("in_progress") :
          /\ j = stepIndex + 1
          /\ \A k \in 1..(j - 1) : Settled(plan.steps[k].status)
          /\ \A k \in (j + 1)..StepCount : plan.steps[k].status = "pending"
    /\ \A j \in 1..StepCount :
          plan.steps[j].status \in {"pending", "in_progress", "completed", "failed", "skipped"}

C25_StatusStep ==
    pc # "plan" =>
       \A j \in 1..StepCount :
          plan'.steps[j].status # plan.steps[j].status =>
             /\ StatusMove(plan.steps[j].status, plan'.steps[j].status)
             /\ ~Settled(plan.steps[j].status)

(* C25: a step's status only moves pending -> in_progress -> completed,
   failed or skipped; at most one step is in_progress, every step before it
   is settled and every step after it is pending; a settled step never
   changes status again. *)
C25_StatusLifecycle == [](C25_StatusesInOrder) /\ [][C25_StatusStep]_vars

\* The second step is in progress after the first one failed.
C25_Witness ==
    /\ StepCount = 2
    /\ plan.steps[1].status = "failed"
    /\ plan.steps[2].status = "in_progress"
    /\ totalIterations >= 2

\* Step j depends on a step after it, on itself, or on an id no step has.
DependsForwardOrUnknown(j) ==
    \E d \in plan.steps[j].dependencies : StepNamed(d) = 0 \/ StepNamed(d) >= j

(* C26: dependencies are checked once, when the step's turn arrives, against
   the statuses of that moment. A step that depends on a later step, on
   itself or on an unknown id is skipped at its turn and is skipped in every
   later state, also after the later step it names has completed; it never
   gets a round-trip or an evaluation, and the steps before the current one
   are never taken up again (they keep a settled status). *)
C26_ForwardDependencySkipsForGood ==
    \A j \in 1..StepCount :
        /\ (TurnArrived(j) /\ DependsForwardOrUnknown(j)) =>
              /\ plan.steps[j].status = "skipped"
              /\ stepIterations[j] = 0
              /\ stepAttemptHistory[j] = << >>
              /\ plan.steps[j].evaluation = << >>
              /\ Processed(j)
        /\ Processed(j) => Settled(plan.steps[j].status)

\* The first step named the second as its dependency and was skipped; the
\* second step has since completed, and the pass is over.
C26_Witness ==
    /\ StepCount = 2
    /\ EnginePassFinished
    /\ "step_2" \in plan.steps[1].dependencies
    /\ plan.steps[1].status = "skipped"
    /\ plan.steps[2].status = "completed"

\* The round-trip being gone through holds no function call: neither a tool
\* call nor the completion signal.
EmptyAttempt == pc = "tools" /\ CallCount(response) = 0

C27_EmptyAttemptChangesNothing ==
    EmptyAttempt =>
        /\ currentFiles' = currentFiles
        /\ allToolResults' = allToolResults
        /\ stepAttemptHistory' = stepAttemptHistory
        /\ executionState' = executionState
        /\ plan'.steps[stepIndex + 1].retryCount = plan.steps[stepIndex + 1].retryCount
        /\ plan'.steps[stepIndex + 1].evaluation = plan.steps[stepIndex + 1].evaluation
        /\ plan'.steps[stepIndex + 1].status = "in_progress"
        /\ pc' \in {"tools", "attempt"}

\* A step that was executed without any scored attempt: all its round-trips
\* were empty.
C27_OnlyEmptyAttempts ==
    \A j \in 1..StepCount :
        (Processed(j) /\ plan.steps[j].status # "skipped" /\ stepAttemptHistory[j] = << >>) =>
            /\ plan.steps[j].status = "failed"
            /\ stepIterations[j] = maxIterationsPerStep
            /\ plan.steps[j].retryCount = 0
            /\ plan.steps[j].evaluation = << >>
            /\ plan.steps[j].toolResults = << >>

(* C27: an attempt whose response holds neither the completion signal nor a
   tool call runs no evaluation and leaves retryCount, the workspace and the
   recorded attempts as they were, and the loop goes on; a step all of whose
   attempts are of this kind is failed after exactly maxIterationsPerStep
   round-trips, with retryCount 0 and no evaluation. *)
C27_EmptyAttempts == [](C27_OnlyEmptyAttempts) /\ [][C27_EmptyAttemptChangesNothing]_vars

\* The first step failed after five round-trips without any function call.
C27_Witness ==
    /\ StepCount >= 1
    /\ Processed(1)
    /\ plan.steps[1].status = "failed"
    /\ stepAttemptHistory[1] = << >>
    /\ stepIterations[1] = 5
    /\ totalIterations >= 5

(* --------------- the engine when every model call returns ---------------- *)

\* The steps of the handler without a throw of the Step Executor's model
\* call. The planner's and the verifier's calls may still throw: that is
\* caught where they are made.
ReturningNext ==
    \/ GeneratePlan
    \/ StartStep
    \/ StepExecutorRoundTrip
    \/ ReadMessageItem
    \/ ArgumentsParseFails
    \/ DispatchToolCall
    \/ EvaluateAttempt
    \/ ExitAttemptLoop
    \/ VerifyOutcome
    \/ Respond
    \/ ReportThrows

\* The handler is one sequential flow that goes on whenever its awaited call
\* has returned.
SpecReturning == Init /\ [][ReturningNext]_vars /\ WF_vars(ReturningNext)

(* C28: provided every model call and every tool call returns, every engine
   pass ends and reaches the Outcome Verifier, after at most
   maxIterationsPerStep round-trips per plan step. *)
C28_PassReachesVerifier ==
    <>(/\ Len(verifierCalls) = 1
       /\ totalIterations <= maxIterationsPerStep * StepCount)

\* The paths of a manifest are pairwise distinct.
PathsDistinct(manifest) ==
    \A k \in 1..Len(manifest), l \in 1..Len(manifest) :
        manifest[k].path = manifest[l].path => k = l

\* The reducer's rules applied to a batch result by result: `created` holds
\* the paths the batch has created so far, nextId the id of the next image file.
RECURSIVE RuleFold(_, _, _, _)
RuleFold(manifest, created, nextId, batch) ==
    IF batch = << >> THEN manifest
    ELSE LET r == Head(batch)
             rest == Tail(batch)
         IN IF ~r.success THEN RuleFold(manifest, created, nextId, rest)
            ELSE IF r.tool = "create_file"
            THEN IF r.result.file.path \in Paths(manifest) \cup created
                 THEN RuleFold(manifest, created, nextId, rest)
                 ELSE RuleFold(Append(manifest, r.result.file),
                               created \cup {r.result.file.path}, nextId, rest)
            ELSE IF r.tool = "edit_file"
            THEN RuleFold([k \in 1..Len(manifest) |->
                             IF manifest[k].id # r.result.fileId THEN manifest[k]
                             ELSE [manifest[k] EXCEPT
                                     !.content = r.result.newContent,
                                     !.name = IF r.result.newFilename = "" THEN @
                                              ELSE r.result.newFilename]],
                          created, nextId, rest)
            ELSE IF r.tool = "delete_file"
            THEN RuleFold(SelectSeq(manifest, LAMBDA f : f.id # r.result.fileId),
                          created, nextId, rest)
            ELSE IF r.tool = "generate_image"
            THEN IF ("/images/" \o r.result.filename) \in Paths(manifest)
                 THEN RuleFold(manifest, created, nextId, rest)
                 ELSE RuleFold(Append(manifest,
                                      [id |-> nextId, name |-> r.result.filename,
                                       type |-> "file",
                                       path |-> "/images/" \o r.result.filename,
                                       content |-> "data:image/png;base64,"
                                                      \o r.result.base64Data]),
                               created, nextId + 1, rest)
            ELSE RuleFold(manifest, created, nextId, rest)

(* C29: for every manifest and ordered batch the reducer follows its rules.
   A successful create adds its file unless the manifest has a file at that
   path or the batch created the path before; edit replaces the content, and
   the name when a new one is given, of the file with that id and does
   nothing for an unknown id; delete removes the file with that id and does
   nothing for an unknown id; image generation adds a file at
   /images/<filename> unless that path exists; failed results change
   nothing. So a manifest with pairwise distinct paths stays one. *)
C29_ReducerRules ==
    reduceOut # Null =>
        /\ reduceOut.once = RuleFold(reduceArg.files, {}, ReduceFreshId, reduceArg.toolCalls)
        /\ PathsDistinct(reduceArg.files) => PathsDistinct(reduceOut.once)

\* A batch that was folded held a create at a path in use, an edit of the
\* manifest's file and a failed result; the manifest has the one file, edited.
C29_Witness ==
    /\ reduceOut # Null
    /\ Len(reduceArg.files) = 1
    /\ Len(reduceArg.toolCalls) = 3
    /\ \E k \in 1..3 : /\ reduceArg.toolCalls[k].tool = "create_file"
                       /\ reduceArg.toolCalls[k].result.file.path \in Paths(reduceArg.files)
    /\ \E k \in 1..3 : /\ reduceArg.toolCalls[k].tool = "edit_file"
                       /\ reduceArg.toolCalls[k].result.fileId = 1
    /\ \E k \in 1..3 : ~reduceArg.toolCalls[k].success
    /\ Len(reduceOut.once) = 1
    /\ reduceOut.once[1].content = "z"

\* The steps of a plan that was executed: one completed, one failed.
ExecutedSteps ==
    << [createDefaultPlan(Prompt).steps[1] EXCEPT !.status = "completed"],
       [createDefaultPlan(Prompt).steps[1] EXCEPT !.id = "step_2", !.status = "failed"] >>

(* C30: the reducer, the planner and the verifier leave what they are given
   as it was. processToolResults returns a list other than the one it was
   given, and after the call the given list holds the same entries, each with
   the contents it had; the list it returns holds the folded manifest. The
   planner and the verifier, given that manifest and the steps of a plan,
   leave the manifest, the steps and their statuses as they were. *)
C30_InputsLeftAlone ==
    reduceOut # Null =>
        LET given == HeapOf(reduceArg.files)
            after == reduceOut.heap
            withPlan == [objects |-> after.objects \o ExecutedSteps,
                         arrays |-> Append(after.arrays,
                                           [k \in 1..Len(ExecutedSteps) |->
                                              Len(after.objects) + k])]
            steps == Len(withPlan.arrays)
            planned == generateStrategicPlanOnHeap(withPlan, reduceOut.files)
            verified == evaluateOverallOutcomeOnHeap(planned, steps, reduceOut.files)
        IN /\ reduceOut.files # 1
           /\ after.arrays[1] = given.arrays[1]
           /\ \A k \in 1..Len(given.objects) : after.objects[k] = given.objects[k]
           /\ Deref(after, 1) = reduceArg.files
           /\ Deref(after, reduceOut.files) = reduceOut.once
           /\ Deref(planned, reduceOut.files) = reduceOut.once
           /\ Deref(verified, reduceOut.files) = reduceOut.once
           /\ Deref(verified, steps) = ExecutedSteps
           /\ Deref(verified, 1) = reduceArg.files

\* A batch that edits the given file, creates another and deletes the given
\* one was folded: the returned manifest differs from the given one.
C30_Witness ==
    /\ reduceOut # Null
    /\ Len(reduceArg.files) = 1
    /\ Len(reduceArg.toolCalls) = 3
    /\ reduceArg.toolCalls[1].tool = "edit_file" /\ reduceArg.toolCalls[1].success
    /\ reduceArg.toolCalls[2].tool = "create_file"
    /\ reduceArg.toolCalls[3].tool = "delete_file"
    /\ Len(reduceOut.once) = 1
    /\ reduceOut.once[1].path = "/b"
    /\ Len(reduceOut.heap.objects) = 3

(* -------------- context compaction with any threshold ------------------- *)

CompactAnyInit ==
    /\ EngineInit
    /\ OneInvocation
    /\ projectId = Null
    /\ conversationHistory \in Histories
    /\ thresholdArg \in 1..MaxThreshold
    /\ NothingApplied

\* compactContext(messages, maxMessages) with the threshold given.
ApplyCompactContextWith ==
    /\ compactedHistory = << >>
    /\ compactedHistory' = << compactContext(conversationHistory, thresholdArg) >>
    /\ UNCHANGED << engineVars, conversationHistory, thresholdArg, evalVars, reduceVars,
                    plannerVars, concurrencyVars >>

CompactAnyNext == ApplyCompactContextWith

SpecCompactAny == CompactAnyInit /\ [][CompactAnyNext]_vars

\* ceil(0.7 * T)
SeventyPercentUp(T) == (7 * T + 9) \div 10

(* C31: for a threshold T >= 1 and a history of N > T messages compactContext
   returns one summary followed by exactly the last ceil(0.7 * T) messages:
   the result has 1 + ceil(0.7 * T) messages and is never longer than the
   input. *)
C31_SummaryAndRecentSuffix ==
    (compactedHistory # << >> /\ Len(conversationHistory) > thresholdArg) =>
        LET n == Len(conversationHistory)
            kept == SeventyPercentUp(thresholdArg)
            compacted == compactedHistory[1]
        IN /\ Len(compacted) = 1 + kept
           /\ Len(compacted) <= n
           /\ compacted[1].role = "system"
           /\ \A k \in 1..kept : compacted[k + 1] = conversationHistory[n - kept + k]

(* ------------------- when the store is read and written ------------------ *)

\* The operations that read the memory and learning tables.
RetrievalOps == {"retrieveRelevantMemories", "retrieveRelevantLearnings"}

\* The operations that write memories, learnings or the closing record update.
StoreWriteOps == {"storeMemory execution_summary", "storeMemory proactive_enhancement",
                  "storeLearning failure_pattern", "storeLearning success_pattern",
                  "updateExecutionRecord"}

\* The positions of the store log holding one of the operations.
LogPositions(ops) == { k \in 1..Len(storeLog) : storeLog[k].op \in ops }

(* C32: the store is read only before planning and written only after
   execution: the two retrievals are the first operations of the run and come
   before the insert of the record that takes the plan, none is made once the
   plan exists, and while the plan is being made or steps are executing the
   log holds no memory write, learning write or closing record update; such
   a write is in the log only when every step has a terminal status and the
   Outcome Verifier has returned. *)
C32_ReadBeforeWrittenAfter ==
    /\ pc = "plan" => storeLog = << >>
    /\ LogPositions(RetrievalOps) \subseteq {1, 2}
    /\ \A k \in LogPositions({"createExecutionRecord"}) : k = 3
    /\ LogPositions(StoreWriteOps) # {} =>
          /\ pc \in {"report", "done", "error"}
          /\ verifierCalls # << >>
          /\ allStepsProcessed
          /\ \A k \in 1..Len(plan.steps) :
                plan.steps[k].status \in {"completed", "failed", "skipped"}
          /\ \A k \in LogPositions(StoreWriteOps) : k > 3

C32_Witness ==
    /\ pc = "done"
    /\ LogPositions(RetrievalOps) = {1, 2}
    /\ \E k \in LogPositions(StoreWriteOps) : storeLog[k].op = "storeLearning failure_pattern"
    /\ \E k \in LogPositions(StoreWriteOps) : storeLog[k].op = "updateExecutionRecord"
    /\ \E k \in LogPositions(StoreWriteOps) : storeLog[k].op = "storeMemory execution_summary"

(* ------------------ evaluation against the recorded results -------------- *)

(* C35: once the pass over the steps has ended and the verifier has been
   called, every step that has an evaluation has the one the Step Evaluator
   gives on the step's final toolResults list: the same success flag, the
   same score and the same number of issues, also for a retried step. *)
C35_EvaluationOfFinalResults ==
    verifierCalls # << >> =>
        \A j \in 1..Len(plan.steps) :
            plan.steps[j].evaluation # << >> =>
                LET recorded == plan.steps[j].evaluation[1]
                    onFinal == evaluateStep(plan.steps[j])
                IN /\ recorded.success = onFinal.success
                   /\ recorded.score = onFinal.score
                   /\ Len(recorded.issues) = Len(onFinal.issues)

(* ---------------------- success only when all is done -------------------- *)

\* Every step of the plan is completed.
EveryStepCompleted == \A k \in 1..Len(plan.steps) : plan.steps[k].status = "completed"

(* C36: a run is reported as successful only when nothing was left undone:
   overallSuccess is true only if every step of the plan is completed, the
   record's finalOutcome is completed only if every step is completed, and
   a closed record of a run with a failed or skipped step says partial. *)
C36_SuccessOnlyWhenAllCompleted ==
    /\ executionState.overallSuccess => EveryStepCompleted
    /\ (executionRecord # Null /\ executionRecord.finalOutcome = "completed")
          => EveryStepCompleted
    /\ (executionRecord # Null /\ executionRecord.completedAt # << >> /\ ~EveryStepCompleted)
          => executionRecord.finalOutcome = "partial"

(* ------------------------ learnings and the outcome ---------------------- *)

\* The learning of the kind was inserted.
LearningStored(kind) ==
    \E k \in 1..Len(storeLog) :
        storeLog[k].op = "storeLearning " \o kind /\ storeLog[k].ok

\* The persistence block has run and none of its database operations threw.
PersistenceWentThrough ==
    /\ projectId # Null
    /\ pc \in {"report", "done", "error"}
    /\ verifierCalls # << >>
    /\ FailedStoreOps \subseteq RetrievalOps \cup {"createExecutionRecord"}

(* C37: the learning writes of an invocation agree with its outcome: once the
   persistence block has run, with a database that took every write, a
   failure_pattern learning is stored iff at least one step ended failed and
   an execution record exists, a success_pattern learning is stored iff
   overallSuccess is true and an execution record exists, and no invocation
   stores both. *)
C37_LearningsMatchOutcome ==
    PersistenceWentThrough =>
        /\ LearningStored("failure_pattern")
              <=> (Len(executionState.failedSteps) > 0 /\ executionRecord # Null)
        /\ LearningStored("success_pattern")
              <=> (executionState.overallSuccess /\ executionRecord # Null)
        /\ ~(LearningStored("failure_pattern") /\ LearningStored("success_pattern"))

(* ---------------------- id lists, statuses and counters ------------------ *)

\* How many times the id occurs in the list.
Occurrences(list, id) == Cardinality({ k \in 1..Len(list) : list[k] = id })

\* The ids of a list, as a set.
IdsOf(list) == { list[k] : k \in 1..Len(list) }

(* C38: in every reachable state the three id lists agree with the step
   statuses and the counters: completedSteps, failedSteps and skippedSteps
   are pairwise disjoint and hold ids of steps of the plan only, the id of a
   step is in a list exactly once if the step has the list's status and not
   at all otherwise, evaluationsPassed is the length of completedSteps and
   evaluationsFailed the length of failedSteps. *)
C38_ListsStatusesCounters ==
    [] LET completed == executionState.completedSteps
           failed == executionState.failedSteps
           skipped == executionState.skippedSteps
       IN /\ IdsOf(completed) \cap IdsOf(failed) = {}
          /\ IdsOf(completed) \cap IdsOf(skipped) = {}
          /\ IdsOf(failed) \cap IdsOf(skipped) = {}
          /\ IdsOf(completed) \cup IdsOf(failed) \cup IdsOf(skipped)
                \subseteq { plan.steps[k].id : k \in 1..Len(plan.steps) }
          /\ \A k \in 1..Len(plan.steps) :
                LET step == plan.steps[k]
                IN /\ Occurrences(completed, step.id) = IF step.status = "completed" THEN 1 ELSE 0
                   /\ Occurrences(failed, step.id) = IF step.status = "failed" THEN 1 ELSE 0
                   /\ Occurrences(skipped, step.id) = IF step.status = "skipped" THEN 1 ELSE 0
          /\ executionState.evaluationsPassed = Len(completed)
          /\ executionState.evaluationsFailed = Len(failed)

\* A two-step run that has listed one step as failed after five attempts
\* without a tool call and the other as completed or skipped.
C38_Witness ==
    /\ pc = "done"
    /\ Len(plan.steps) = 2
    /\ Len(executionState.failedSteps) = 1
    /\ Len(executionState.completedSteps) + Len(executionState.skippedSteps) = 1
    /\ \E k \in 1..2 : plan.steps[k].status = "failed" /\ plan.steps[k].retryCount = 0

(* ------------------------ completion and real work ----------------------- *)

(* C39: a step becomes completed only through an attempt in which the model
   performed real work: the last scored attempt of a completed step holds
   at least one successful tool call other than complete_step. *)
C39_CompletedByRealWork ==
    \A j \in 1..Len(plan.steps) :
        plan.steps[j].status = "completed" =>
            /\ stepAttemptHistory[j] # << >>
            /\ LET last == stepAttemptHistory[j][Len(stepAttemptHistory[j])]
               IN \E k \in 1..Len(last.results) :
                     last.results[k].success /\ last.results[k].tool # "complete_step"

(* ------------------- workspace changes of failed attempts ---------------- *)

\* Function calls that create, delete, generate and fail in one response.
ChangeItems == { CreateB, DeleteNew, GenerateImage, EditMissing }

\* response.output of one round-trip: up to MaxToolCalls of those calls, or a
\* message.
ChangeResponses ==
    { r \in SeqsUpTo(ChangeItems, MaxToolCalls) : r # << >> } \cup { << Message >> }

StepExecutorRoundTripChanging == RoundTripFrom(ChangeResponses)

\* The engine on the one-step default plan with those responses.
ChangeNext ==
    \/ GeneratePlanFallback
    \/ StartStep
    \/ StepExecutorRoundTripChanging
    \/ ReadMessageItem
    \/ DispatchToolCall
    \/ EvaluateAttempt
    \/ ExitAttemptLoop
    \/ VerifyOutcome
    \/ Respond
    \/ ReportThrows

SpecChange == Init /\ [][ChangeNext]_vars

\* Every attempt that was scored was scored as failed, and one of them holds
\* a successful tool call.
OnlyFailedAttemptsWithChanges ==
    /\ \A j \in 1..Len(stepAttemptHistory) :
          \A a \in 1..Len(stepAttemptHistory[j]) : ~stepAttemptHistory[j][a].success
    /\ \E k \in 1..Len(allToolResults) : allToolResults[k].success

(* C40: workspace changes are never rolled back. At the end of a run all of
   whose scored attempts were scored as failed, what their successful calls
   created, edited and deleted is kept: the in-progress workspace is the
   one the per-call folds built, and the final manifest has the same paths
   with the same contents. *)
C40_FailedAttemptsKeepChanges ==
    (pc \in {"report", "done"} /\ OnlyFailedAttemptsWithChanges) =>
        /\ verifierCalls[1].files = currentFiles
        /\ PathContents(processedResults.files) = PathContents(currentFiles)

(* ---------------------- two invocations, interleaved --------------------- *)

\* The locals of the invocation that holds the engine: everything POST
\* declares with const or let between its first line and the step loop.
Locals ==
    [pc |-> pc, files |-> files, plan |-> plan, executionState |-> executionState,
     stepIndex |-> stepIndex, currentFiles |-> currentFiles,
     allToolResults |-> allToolResults, totalIterations |-> totalIterations,
     stepCompleted |-> stepCompleted, stepIterations |-> stepIterations,
     stepAttemptHistory |-> stepAttemptHistory, response |-> response,
     itemIdx |-> itemIdx, stepSignaledComplete |-> stepSignaledComplete,
     dispatched |-> dispatched, idSeq |-> idSeq, overallEvaluation |-> overallEvaluation,
     verifierCalls |-> verifierCalls, processedResults |-> processedResults,
     projectId |-> projectId, executionRecord |-> executionRecord,
     memories |-> memories, learnings |-> learnings, storeLog |-> storeLog,
     compactedHistory |-> compactedHistory]

\* The locals of an invocation that has just read its request body.
LocalsAtStart(requestFiles) ==
    [pc |-> "plan", files |-> requestFiles, plan |-> NoPlan,
     executionState |-> [planGenerated |-> FALSE, currentStepIndex |-> 0,
                         completedSteps |-> << >>, failedSteps |-> << >>,
                         skippedSteps |-> << >>, evaluationsPassed |-> 0,
                         evaluationsFailed |-> 0, overallSuccess |-> FALSE],
     stepIndex |-> 0, currentFiles |-> requestFiles, allToolResults |-> << >>,
     totalIterations |-> 0, stepCompleted |-> << >>, stepIterations |-> << >>,
     stepAttemptHistory |-> << >>, response |-> << >>, itemIdx |-> 1,
     stepSignaledComplete |-> FALSE, dispatched |-> << >>, idSeq |-> FirstFreshId,
     overallEvaluation |-> EmptyObject, verifierCalls |-> << >>,
     processedResults |-> NoResults, projectId |-> Null, executionRecord |-> Null,
     memories |-> << >>, learnings |-> << >>, storeLog |-> << >>,
     compactedHistory |-> << >>]

\* Were executionState an object of the module, the same for every invocation.
resumeSharingState(saved, current) ==
    [saved EXCEPT !.executionState = current.executionState]

\* What an invocation finds when its await returns: plan, executionState,
\* currentFiles and the rest are locals of its own call of POST (744-777), the
\* module has no variable that is assigned after loading, so it finds what it left.
resume(saved, current) == saved

\* The second request: the same goal on an empty project.
SecondRequestFiles == << >>

TwoInit ==
    /\ EngineInit
    /\ projectId = Null
    /\ conversationHistory = << >>
    /\ thresholdArg = defaultMaxMessages
    /\ NothingApplied
    /\ running = 1
    /\ suspended = LocalsAtStart(SecondRequestFiles)
    /\ projectRow = Null
    /\ invocations = << >>

\* The invocation that holds the engine waits at an await (a round-trip, a
\* tool call, the planner, the verifier) and the other one, itself waiting at
\* one, goes on.
SwitchInvocation ==
    /\ suspended # Null
    /\ suspended.pc \notin {"done", "error"}
    /\ LET mine == resume(suspended, Locals)
       IN /\ pc' = mine.pc
          /\ files' = mine.files
          /\ plan' = mine.plan
          /\ executionState' = mine.executionState
          /\ stepIndex' = mine.stepIndex
          /\ currentFiles' = mine.currentFiles
          /\ allToolResults' = mine.allToolResults
          /\ totalIterations' = mine.totalIterations
          /\ stepCompleted' = mine.stepCompleted
          /\ stepIterations' = mine.stepIterations
          /\ stepAttemptHistory' = mine.stepAttemptHistory
          /\ response' = mine.response
          /\ itemIdx' = mine.itemIdx
          /\ stepSignaledComplete' = mine.stepSignaledComplete
          /\ dispatched' = mine.dispatched
          /\ idSeq' = mine.idSeq
          /\ overallEvaluation' = mine.overallEvaluation
          /\ verifierCalls' = mine.verifierCalls
          /\ processedResults' = mine.processedResults
          /\ projectId' = mine.projectId
          /\ executionRecord' = mine.executionRecord
          /\ memories' = mine.memories
          /\ learnings' = mine.learnings
          /\ storeLog' = mine.storeLog
          /\ compactedHistory' = mine.compactedHistory
    /\ suspended' = Locals
    /\ running' = 3 - running
    /\ UNCHANGED << conversationHistory, thresholdArg, evalVars, reduceVars, plannerVars,
                    projectRow, invocations >>

\* response.output of one round-trip: a file is created, or an edit fails.
TwoResponses == { << CreateB >>, << EditMissing >> }

StepExecutorRoundTripOfTwo == RoundTripFrom(TwoResponses)

TwoNext ==
    \/ GeneratePlanFallback
    \/ StartStep
    \/ StepExecutorRoundTripOfTwo
    \/ DispatchToolCall
    \/ EvaluateAttempt
    \/ ExitAttemptLoop
    \/ VerifyOutcome
    \/ Respond
    \/ ReportThrows
    \/ SwitchInvocation

SpecTwo == TwoInit /\ [][TwoNext]_vars

\* What the claim follows of an invocation: its steps with their statuses and
\* retry counts, its ExecutionState and its in-progress workspace.
PlanAndState(locals) ==
    [steps |-> locals.plan.steps, executionState |-> locals.executionState,
     currentFiles |-> locals.currentFiles]

(* C33: two interleaved invocations never share plan or execution state: a
   step of the invocation that holds the engine leaves the steps,
   ExecutionState and workspace of the waiting one as they are, and an
   invocation that goes on after waiting finds its steps, ExecutionState and
   workspace as it left them, so each of them goes through the states it
   would go through alone with the same answers. *)
C33_InvocationsApart ==
    [][ IF running' # running
        THEN /\ PlanAndState(Locals)' = PlanAndState(suspended)
             /\ PlanAndState(suspended') = PlanAndState(Locals)
        ELSE PlanAndState(suspended') = PlanAndState(suspended) ]_vars

\* Both invocations are in the middle of an attempt, the waiting one after a
\* failed attempt and the other with a file created.
C33_Witness ==
    /\ running = 1
    /\ pc = "tools"
    /\ Len(currentFiles) = 2
    /\ suspended.pc = "tools"
    /\ suspended.plan.steps[1].retryCount = 1
    /\ suspended.currentFiles = << >>

(* ------------- two invocations updating the same project ----------------- *)

\* What invocation i's tools did: it created a file of its own, installed a
\* package of its own, or both.
WorkOf(i) ==
    LET name == IF i = 1 THEN "b" ELSE "c"
        package == IF i = 1 THEN "react" ELSE "zod"
        created == recordedResult("create_file",
                                  [filename |-> name, content |-> "y", path |-> "/"],
                                  << >>, FirstFreshId + i)
        installed == recordedResult("install_package",
                                    [packageName |-> package, version |-> "1.0.0"],
                                    << >>, FirstFreshId + i)
    IN { << created, installed >>, << created >>, << installed >> }

\* An invocation whose request has not arrived.
NotStarted ==
    [at |-> "request", files |-> << >>, processedResults |-> NoResults,
     existingPackages |-> << >>, afterOther |-> FALSE]

PersistInit ==
    /\ EngineInit
    /\ projectId = Null
    /\ conversationHistory = << >>
    /\ thresholdArg = defaultMaxMessages
    /\ NothingApplied
    /\ running = 1
    /\ suspended = Null
    /\ projectRow \in { [files |-> m, packages |-> << >>] : m \in InitialManifests }
    /\ invocations = << NotStarted, NotStarted >>

\* Line 735: the request arrives with the project's files as the client has
\* just loaded them; afterOther notes whether the other invocation had
\* finished by then.
ReceiveRequest(i) ==
    /\ invocations[i].at = "request"
    /\ invocations' =
          ReplaceAt(invocations, i,
                    [invocations[i] EXCEPT !.at = "run", !.files = projectRow.files,
                                           !.afterOther = (invocations[3 - i].at = "done")])
    /\ UNCHANGED << engineVars, evalVars, historyVars, reduceVars, plannerVars,
                    running, suspended, projectRow >>

\* Lines 741-939: the engine pass, of which the update uses the aggregate
\* fold of its tool results over the request's files.
RunEngine(i) ==
    /\ invocations[i].at = "run"
    /\ \E work \in WorkOf(i) :
         LET processed == processToolResults(work, invocations[i].files, FirstFreshId + i)
         IN invocations' =
              ReplaceAt(invocations, i,
                        [invocations[i] EXCEPT
                           !.processedResults = processed,
                           !.at = IF Len(processed.packages) > 0 THEN "read" ELSE "update"])
    /\ UNCHANGED << engineVars, evalVars, historyVars, reduceVars, plannerVars,
                    running, suspended, projectRow >>

\* Lines 948-953: the packages of the row are read.
ReadPackages(i) ==
    /\ invocations[i].at = "read"
    /\ invocations' =
          ReplaceAt(invocations, i,
                    [invocations[i] EXCEPT !.existingPackages = projectRow.packages,
                                           !.at = "update"])
    /\ UNCHANGED << engineVars, evalVars, historyVars, reduceVars, plannerVars,
                    running, suspended, projectRow >>

\* Were the packages of the run written in place of the row's.
packagesToWriteReplacing(existing, new) == new

\* Line 954.
packagesToWrite(existing, new) == existing \o new

\* Lines 943-959: the row gets the run's files, and its packages when the
\* run installed some.
UpdateProject(i) ==
    /\ invocations[i].at = "update"
    /\ LET mine == invocations[i]
       IN projectRow' =
            [files |-> mine.processedResults.files,
             packages |-> IF Len(mine.processedResults.packages) > 0
                          THEN packagesToWrite(mine.existingPackages,
                                               mine.processedResults.packages)
                          ELSE projectRow.packages]
    /\ invocations' = ReplaceAt(invocations, i, [invocations[i] EXCEPT !.at = "done"])
    /\ UNCHANGED << engineVars, evalVars, historyVars, reduceVars, plannerVars,
                    running, suspended >>

PersistNext ==
    \E i \in 1..2 :
        \/ ReceiveRequest(i)
        \/ RunEngine(i)
        \/ ReadPackages(i)
        \/ UpdateProject(i)

SpecPersist == PersistInit /\ [][PersistNext]_vars

\* The names of the packages invocation i installed.
InstalledBy(i) ==
    { invocations[i].processedResults.packages[k].name :
        k \in 1..Len(invocations[i].processedResults.packages) }

\* The paths at which invocation i created a file.
CreatedBy(i) == Paths(invocations[i].processedResults.files) \ Paths(invocations[i].files)

\* The names of the packages of the row.
RowPackages == { projectRow.packages[k].name : k \in 1..Len(projectRow.packages) }

BothFinished == \A i \in 1..2 : invocations[i].at = "done"

\* The row has what both invocations installed and created.
RowHasBoth ==
    \A i \in 1..2 :
        InstalledBy(i) \subseteq RowPackages /\ CreatedBy(i) \subseteq Paths(projectRow.files)

\* After two invocations on the same project, in whatever order their
\* requests, reads and updates came, the row has the packages and the files
\* of both.
C34_Original == BothFinished => RowHasBoth

(* C34: after two invocations on the same project have finished, the row has
   every package installed and every file created by either of them when
   one of them began after the other had finished. In every case the
   row's manifest is the final manifest of one of the two, whole, and when
   packages were installed the row has those of one installing invocation:
   the update that comes last replaces what an overlapping one wrote. *)
C34_SerialKeepsBoth ==
    BothFinished =>
        /\ (\E i \in 1..2 : invocations[i].afterOther) => RowHasBoth
        /\ \E i \in 1..2 : projectRow.files = invocations[i].processedResults.files
        /\ (\E i \in 1..2 : InstalledBy(i) # {}) =>
              \E i \in 1..2 : InstalledBy(i) # {} /\ InstalledBy(i) \subseteq RowPackages

\* One invocation after the other, each creating a file and installing a package.
C34_Witness ==
    /\ BothFinished
    /\ invocations[2].afterOther
    /\ \A i \in 1..2 : InstalledBy(i) # {} /\ CreatedBy(i) # {}
    /\ Cardinality(RowPackages) = 2
    /\ Len(projectRow.files) = 3

=============================================================================
